---- MODULE Spec2Model ----
\* ERP-Modern: the notification engine (frames/notificaciones.py) and the
\* persistence gateway (database.py), modelled as state machines.
EXTENDS Integers, Sequences, FiniteSets, TLC

\* ---------------------------------------------------------------- constants
max_notifications == 5
HistoryCap == 200
DefaultAutoClearDays == 30
StockFloor == 10
WidgetHeight == 120

\* ---------------------------------------------------------------- bounds
MaxSubmit == 7
MaxHistSubmit == 2
MaxEmit == 2
MaxClock == 2
MaxClickRow == 1
NProducts == 2
MaxMovs == 3
MaxStock == 20

\* A history that is already one short of the cap: the state of a manager that
\* has delivered and dismissed that many notifications earlier in the session.
LongHistory == HistoryCap - 1
Prefills == {0, LongHistory}
SavedAutoClearDays == {1, DefaultAutoClearDays}

\* Python None / SQL NULL.
None == "<None>"

VARIABLES
    notification_widgets,   \* displayed widgets, in display order (ids)
    targets,                \* current_x, current_y of each displayed widget
    countdowns,             \* widgets whose QTimer.singleShot(duration, close) is pending
    notification_history,   \* most-recent-first list of notification dicts
    notification_queue,     \* delivery queue (ids)
    is_animating,
    poll_timers,            \* pending QTimer.singleShot(500, show_next_notification)
    anim_timers,            \* pending QTimer.singleShot(150, lambda ...)
    next_id,                \* identity of the next data dict
    first_id,               \* identity of the first dict submitted in this run
    shown,                  \* log of notification_shown emissions
    config,
    now,                    \* datetime.now(), in days
    center_open,            \* a NotificationCenter dialog is executing
    notif_list,             \* rows of the dialog's QListWidget (ids)
    Configuracion,          \* table Configuracion: a set of rows, clave unique
    Productos,              \* table Productos: id -> row
    MovimientosInventario,  \* table MovimientosInventario, in rowid order
    ret,                    \* what the last gateway call returned
    Clientes,               \* table Clientes: a set of rows, id unique
    sqlite_sequence,        \* AUTOINCREMENT: the largest Clientes id ever used
    Ventas,                 \* table Ventas: a set of rows, id unique
    DetalleVenta,           \* table DetalleVenta: a set of rows, id unique
    Usuarios,               \* the tables below: a set of row names each
    Proveedores,
    Categorias,
    Descuentos,
    Empresa,
    SeriesFacturacion,
    current_client_id,      \* ClientsFrame.current_client_id
    current_product_id,     \* ProductFrame.current_product_id
    message,                \* the last message box shown to the user
    config_file,            \* contents of notification_config.json
    raised,                 \* an exception left the last call
    client_form,            \* texts of the client form's input fields
    active_timers,          \* the repeating QTimers that have been started
    calls,                  \* registrar_movimiento_inventario: each caller's locals
    supplier_frame          \* SupplierFrame: selection, categories, list and filters

nvars == <<notification_widgets, targets, countdowns, notification_history, notification_queue,
           is_animating, poll_timers, anim_timers, next_id, first_id, shown,
           config, now, center_open, notif_list>>

dbvars == <<Configuracion, Productos, MovimientosInventario, ret>>

uivars == <<active_timers, calls, supplier_frame>>

appvars == <<Clientes, sqlite_sequence, Ventas, DetalleVenta, Usuarios, Proveedores,
             Categorias, Descuentos, Empresa, SeriesFacturacion, current_client_id,
             current_product_id, message, config_file, raised, client_form, uivars>>

vars == <<nvars, dbvars, appvars>>

\* ---------------------------------------------------------------- helpers
Range(s) == {s[i] : i \in 1..Len(s)}

RemoveAt(s, i) == SubSeq(s, 1, i - 1) \o SubSeq(s, i + 1, Len(s))

\* list.remove(x): drops the first occurrence.
RemoveFirst(s, x) ==
    IF x \in Range(s)
    THEN RemoveAt(s, CHOOSE i \in 1..Len(s) : s[i] = x /\ \A j \in 1..(i - 1) : s[j] # x)
    ELSE s

Ids(h) == [i \in 1..Len(h) |-> h[i].id]

\* The manager's mutable fields as one value, so that a handler which calls
\* other methods is the composition of their effects.
Mgr == [widgets |-> notification_widgets,
        targets |-> targets,
        countdowns |-> countdowns,
        position |-> config.position,
        history |-> notification_history,
        queue |-> notification_queue,
        is_animating |-> is_animating,
        poll_timers |-> poll_timers,
        anim_timers |-> anim_timers,
        next_id |-> next_id,
        shown |-> shown]

SetMgr(m) ==
    /\ notification_widgets' = m.widgets
    /\ targets' = m.targets
    /\ countdowns' = m.countdowns
    /\ notification_history' = m.history
    /\ notification_queue' = m.queue
    /\ is_animating' = m.is_animating
    /\ poll_timers' = m.poll_timers
    /\ anim_timers' = m.anim_timers
    /\ next_id' = m.next_id
    /\ shown' = m.shown

\* ---------------------------------------------------------------- NotificationManager
\* QApplication.primaryScreen().availableGeometry() of a 1366 x 768 display.
Screen == [width |-> 1366, height |-> 728]

Positions == {"top-right", "bottom-right", "top-left"}

\* reposition_notifications: animate_to(start_x, y) for each displayed widget
\* in display order, y advancing by (height + spacing) * (1 if spacing > 0 else -1).
reposition_notifications(widgets, position) ==
    LET start_x == IF position = "top-right" THEN Screen.width - 380
                   ELSE IF position = "bottom-right" THEN Screen.width - 380
                   ELSE 20
        start_y == IF position = "top-right" THEN 80
                   ELSE IF position = "bottom-right" THEN Screen.height - 150
                   ELSE 80
        spacing == IF position = "top-right" THEN 10
                   ELSE IF position = "bottom-right" THEN 0 - 10
                   ELSE 10
        step == (WidgetHeight + spacing) * (IF spacing > 0 THEN 1 ELSE 0 - 1)
    IN [i \in 1..Len(widgets) |-> [x |-> start_x, y |-> start_y + (i - 1) * step]]

\* Variants of show_next_notification with a plausible slip each.
show_next_notification_gt(m) ==
    IF m.queue = <<>>
    THEN [m EXCEPT !.is_animating = FALSE]
    ELSE IF Len(m.widgets) > max_notifications
    THEN [m EXCEPT !.poll_timers = @ + 1]
    ELSE [m EXCEPT !.is_animating = TRUE,
                   !.queue = Tail(@),
                   !.widgets = Append(@, Head(m.queue)),
                   !.targets = reposition_notifications(Append(m.widgets, Head(m.queue)),
                                                        m.position),
                   !.shown = Append(@, Head(m.queue)),
                   !.countdowns = @ \cup {Head(m.queue)},
                   !.anim_timers = @ + 1]

show_next_notification_lifo(m) ==
    IF m.queue = <<>>
    THEN [m EXCEPT !.is_animating = FALSE]
    ELSE IF Len(m.widgets) >= max_notifications
    THEN [m EXCEPT !.poll_timers = @ + 1]
    ELSE [m EXCEPT !.is_animating = TRUE,
                   !.queue = SubSeq(@, 1, Len(@) - 1),
                   !.widgets = Append(@, m.queue[Len(m.queue)]),
                   !.targets = reposition_notifications(Append(m.widgets, m.queue[Len(m.queue)]),
                                                        m.position),
                   !.shown = Append(@, m.queue[Len(m.queue)]),
                   !.countdowns = @ \cup {m.queue[Len(m.queue)]},
                   !.anim_timers = @ + 1]

show_next_notification_noretry(m) ==
    IF m.queue = <<>>
    THEN [m EXCEPT !.is_animating = FALSE]
    ELSE IF Len(m.widgets) >= max_notifications
    THEN m
    ELSE [m EXCEPT !.is_animating = TRUE,
                   !.queue = Tail(@),
                   !.widgets = Append(@, Head(m.queue)),
                   !.targets = reposition_notifications(Append(m.widgets, Head(m.queue)),
                                                        m.position),
                   !.shown = Append(@, Head(m.queue)),
                   !.countdowns = @ \cup {Head(m.queue)},
                   !.anim_timers = @ + 1]

show_next_notification(m) ==
    IF m.queue = <<>>
    THEN [m EXCEPT !.is_animating = FALSE]
    ELSE IF Len(m.widgets) >= max_notifications
    THEN [m EXCEPT !.poll_timers = @ + 1]
    ELSE [m EXCEPT !.is_animating = TRUE,
                   !.queue = Tail(@),
                   !.widgets = Append(@, Head(m.queue)),
                   !.targets = reposition_notifications(Append(m.widgets, Head(m.queue)),
                                                        m.position),
                   !.shown = Append(@, Head(m.queue)),
                   !.countdowns = @ \cup {Head(m.queue)},
                   !.anim_timers = @ + 1]

HistoryInsert_popfirst(h, data) ==
    LET h1 == <<data>> \o h
    IN IF Len(h1) > HistoryCap THEN Tail(h1) ELSE h1

HistoryInsert(h, data) ==
    LET h1 == <<data>> \o h
    IN IF Len(h1) > HistoryCap THEN SubSeq(h1, 1, Len(h1) - 1) ELSE h1

show_notification_inverted(m, t, title, action_data) ==
    LET data == [id |-> m.next_id, read |-> FALSE, timestamp |-> t,
                 title |-> title, action_data |-> action_data]
        m1 == [m EXCEPT !.history = HistoryInsert(@, data),
                        !.queue = Append(@, data.id),
                        !.next_id = @ + 1]
    IN IF m1.is_animating THEN show_next_notification(m1) ELSE m1

show_notification(m, t, title, action_data) ==
    LET data == [id |-> m.next_id, read |-> FALSE, timestamp |-> t,
                 title |-> title, action_data |-> action_data]
        m1 == [m EXCEPT !.history = HistoryInsert(@, data),
                        !.queue = Append(@, data.id),
                        !.next_id = @ + 1]
    IN IF ~m1.is_animating THEN show_next_notification(m1) ELSE m1

on_widget_closed_marks_read(m, w) ==
    IF w \in Range(m.widgets)
    THEN [m EXCEPT !.widgets = RemoveFirst(@, w),
                   !.targets = reposition_notifications(RemoveFirst(m.widgets, w), m.position),
                   !.history = [i \in 1..Len(@) |->
                                   IF @[i].id = w THEN [@[i] EXCEPT !.read = TRUE] ELSE @[i]]]
    ELSE [m EXCEPT !.targets = reposition_notifications(m.widgets, m.position)]

on_widget_closed(m, w) ==
    IF w \in Range(m.widgets)
    THEN [m EXCEPT !.widgets = RemoveFirst(@, w),
                   !.targets = reposition_notifications(RemoveFirst(m.widgets, w), m.position)]
    ELSE [m EXCEPT !.targets = reposition_notifications(m.widgets, m.position)]

mark_all_as_read(h) == [i \in 1..Len(h) |-> [h[i] EXCEPT !.read = TRUE]]

handle_notification_click(h, row) == [h EXCEPT ![row].read = TRUE]

get_unread_count(h) == Cardinality({i \in 1..Len(h) : ~h[i].read})

auto_clean_history(h, cfg, t) ==
    LET cutoff_date == t - cfg.auto_clear_days
        Keep(notif) == notif.timestamp > cutoff_date
    IN SelectSeq(h, Keep)

\* ---------------------------------------------------------------- initial state
DefaultConfig == [stock_alerts |-> TRUE, sales_alerts |-> TRUE,
                  login_alerts |-> TRUE, system_alerts |-> TRUE,
                  auto_clear_days |-> DefaultAutoClearDays,
                  position |-> "top-right"]

OldEntry(i, n) == [id |-> n + 1 - i, read |-> FALSE, timestamp |-> 0,
                   title |-> "Sesion finalizada", action_data |-> 0]

NInitOf(prefills, configs) ==
    /\ notification_widgets = <<>>
    /\ targets = <<>>
    /\ countdowns = {}
    /\ notification_queue = <<>>
    /\ is_animating = FALSE
    /\ poll_timers = 0
    /\ anim_timers = 0
    /\ shown = <<>>
    /\ \E n \in prefills :
          /\ notification_history = [i \in 1..n |-> OldEntry(i, n)]
          /\ next_id = n + 1
          /\ first_id = n + 1
    /\ config \in configs
    /\ now = 0
    /\ center_open = FALSE
    /\ notif_list = <<>>

\* load_config: the saved document merged over the defaults.
LoadedConfigs == {[DefaultConfig EXCEPT !.auto_clear_days = d] : d \in SavedAutoClearDays}

NInit == NInitOf(Prefills, LoadedConfigs)

\* ---------------------------------------------------------------- actions
Submitted == next_id - first_id

\* Any caller of show_notification (logout, test button, decorators).
Submit(limit) ==
    /\ Submitted < limit
    /\ SetMgr(show_notification(Mgr, now, "Sesion finalizada", 0))
    /\ UNCHANGED <<first_id, config, now, center_open, notif_list>>
    /\ UNCHANGED <<dbvars, appvars>>

\* The 500 ms admission retry fires.
PollTimer ==
    /\ poll_timers > 0
    /\ SetMgr(show_next_notification([Mgr EXCEPT !.poll_timers = @ - 1]))
    /\ UNCHANGED <<first_id, config, now, center_open, notif_list>>
    /\ UNCHANGED <<dbvars, appvars>>

\* The 150 ms timer armed after a display fires.
AnimTimer ==
    /\ anim_timers > 0
    /\ SetMgr(show_next_notification([Mgr EXCEPT !.anim_timers = @ - 1,
                                                 !.is_animating = FALSE]))
    /\ UNCHANGED <<first_id, config, now, center_open, notif_list>>
    /\ UNCHANGED <<dbvars, appvars>>

\* close() on a displayed widget (the close button, or any close where the
\* countdown is not followed): closeEvent runs the manager's close callback.
Dismiss(w) ==
    /\ w \in Range(notification_widgets)
    /\ SetMgr(on_widget_closed(Mgr, w))
    /\ UNCHANGED <<first_id, config, now, center_open, notif_list>>
    /\ UNCHANGED <<dbvars, appvars>>

Tick ==
    /\ now < MaxClock
    /\ now' = now + 1
    /\ UNCHANGED <<targets, countdowns, notification_widgets, notification_history, notification_queue,
                   is_animating, poll_timers, anim_timers, next_id, first_id, shown,
                   config, center_open, notif_list>>
    /\ UNCHANGED <<dbvars, appvars>>

AutoClean ==
    /\ notification_history' = auto_clean_history(notification_history, config, now)
    /\ UNCHANGED <<targets, countdowns, notification_widgets, notification_queue,
                   is_animating, poll_timers, anim_timers, next_id, first_id, shown,
                   config, now, center_open, notif_list>>
    /\ UNCHANGED <<dbvars, appvars>>

\* NotificationCenter.load_notifications: one row per history entry.
load_notifications(h) == Ids(h)

\* show_notification_center: the dialog is built (load_notifications) and
\* executed; showEvent marks everything read and reloads the list.
OpenCenter ==
    /\ ~center_open
    /\ center_open' = TRUE
    /\ notification_history' = mark_all_as_read(notification_history)
    /\ notif_list' = load_notifications(notification_history')
    /\ UNCHANGED <<targets, countdowns, notification_widgets, notification_queue,
                   is_animating, poll_timers, anim_timers, next_id, first_id, shown,
                   config, now>>
    /\ UNCHANGED <<dbvars, appvars>>

CloseCenter ==
    /\ center_open
    /\ center_open' = FALSE
    /\ notif_list' = <<>>
    /\ UNCHANGED <<targets, countdowns, notification_widgets, notification_history, notification_queue,
                   is_animating, poll_timers, anim_timers, next_id, first_id, shown,
                   config, now>>
    /\ UNCHANGED <<dbvars, appvars>>

\* NotificationCenter.mark_all_read (the "mark all" button).
MarkAllRead ==
    /\ center_open
    /\ notification_history' = mark_all_as_read(notification_history)
    /\ notif_list' = load_notifications(notification_history')
    /\ UNCHANGED <<targets, countdowns, notification_widgets, notification_queue,
                   is_animating, poll_timers, anim_timers, next_id, first_id, shown,
                   config, now, center_open>>
    /\ UNCHANGED <<dbvars, appvars>>

\* NotificationCenter.on_notification_click on the item of 0-based row `row`.
HistoryClick(row) ==
    /\ center_open
    /\ row + 1 <= Len(notif_list)
    /\ IF 0 <= row /\ row < Len(notification_history)
       THEN /\ notification_history' = handle_notification_click(notification_history, row + 1)
            /\ notif_list' = load_notifications(notification_history')
       ELSE UNCHANGED <<notification_history, notif_list>>
    /\ UNCHANGED <<targets, countdowns, notification_widgets, notification_queue,
                   is_animating, poll_timers, anim_timers, next_id, first_id, shown,
                   config, now, center_open>>
    /\ UNCHANGED <<dbvars, appvars>>

\* NotificationCenter.clear_history, confirmed with Yes.
ClearHistory ==
    /\ center_open
    /\ notification_history' = <<>>
    /\ notif_list' = load_notifications(notification_history')
    /\ UNCHANGED <<targets, countdowns, notification_widgets, notification_queue,
                   is_animating, poll_timers, anim_timers, next_id, first_id, shown,
                   config, now, center_open>>
    /\ UNCHANGED <<dbvars, appvars>>

\* ---------------------------------------------------------------- emitters
\* check_stock_alerts' query: WHERE stock <= stock_minimo AND stock_minimo > 0
\* OR stock <= 10, rows in rowid order.
LowStock(row) ==
    (row.stock <= row.stock_minimo /\ row.stock_minimo > 0) \/ row.stock <= StockFloor

LowStockRows(P) ==
    LET Matches(i) == LowStock(P[i])
    IN SelectSeq([i \in 1..Cardinality(DOMAIN P) |-> i], Matches)

RECURSIVE SubmitStock(_, _, _)
SubmitStock(m, rows, t) ==
    IF rows = <<>> THEN m
    ELSE SubmitStock(show_notification(m, t, "Stock Critico", Head(rows)), Tail(rows), t)

check_stock_alerts(m, cfg, P, t) ==
    IF ~cfg.stock_alerts THEN m ELSE SubmitStock(m, LowStockRows(P), t)

notify_login_ungated(m, cfg, t) == show_notification(m, t, "Sesion Iniciada", 0)

notify_login(m, cfg, t) ==
    IF cfg.login_alerts THEN show_notification(m, t, "Sesion Iniciada", 0) ELSE m

notify_sale_success(m, cfg, t) ==
    IF cfg.sales_alerts THEN show_notification(m, t, "Venta Exitosa", 0) ELSE m

notify_sale_cancelled(m, cfg, t) ==
    IF cfg.sales_alerts THEN show_notification(m, t, "Venta Cancelada", 0) ELSE m

notify_system_info(m, cfg, t) ==
    IF cfg.system_alerts THEN show_notification(m, t, "Sistema ERP Iniciado", 0) ELSE m

notify_backup_completed(m, t) == show_notification(m, t, "Backup Completado", 0)

notify_error(m, t) == show_notification(m, t, "Error", 0)

Emit(m) ==
    /\ m.next_id - first_id <= MaxEmit
    /\ SetMgr(m)
    /\ UNCHANGED <<first_id, config, now, center_open, notif_list>>
    /\ UNCHANGED <<dbvars, appvars>>

\* The stock_check_timer (5 minutes) fires.
CheckStock == Emit(check_stock_alerts(Mgr, config, Productos, now))

NotifyLogin == Emit(notify_login(Mgr, config, now))

NotifySaleSuccess == Emit(notify_sale_success(Mgr, config, now))

NotifySaleCancelled == Emit(notify_sale_cancelled(Mgr, config, now))

NotifySystemInfo == Emit(notify_system_info(Mgr, config, now))

NotifyBackupCompleted == Emit(notify_backup_completed(Mgr, now))

NotifyError == Emit(notify_error(Mgr, now))

\* json.load of one value of the document.
JsonValue(text) ==
    CASE text = "true" -> TRUE
      [] text = "false" -> FALSE
      [] text = "1" -> 1
      [] text = "3" -> 3
      [] text = "7" -> 7
      [] text = "30" -> DefaultAutoClearDays

\* json.dump of the value of one key of the configuration.
JsonText(k, v) ==
    IF k = "position" THEN v
    ELSE IF k \in {"auto_clear_days", "volume"}
    THEN CASE v = 1 -> "1"
           [] v = 3 -> "3"
           [] v = 7 -> "7"
           [] v = DefaultAutoClearDays -> "30"
    ELSE IF v THEN "true" ELSE "false"

\* NotificationCenter.save_config: the four checkboxes replace the booleans
\* and the combo box the position,
\* and manager.save_config dumps the configuration to notification_config.json.
AlertSettings == [stock_alerts : BOOLEAN, sales_alerts : BOOLEAN,
                  login_alerts : BOOLEAN, system_alerts : BOOLEAN,
                  position : Positions]

SaveConfig(boxes) ==
    /\ center_open
    /\ config' = [config EXCEPT !.stock_alerts = boxes.stock_alerts,
                                !.sales_alerts = boxes.sales_alerts,
                                !.login_alerts = boxes.login_alerts,
                                !.system_alerts = boxes.system_alerts,
                                !.position = boxes.position]
    /\ UNCHANGED <<targets, countdowns, notification_widgets, notification_history, notification_queue,
                   is_animating, poll_timers, anim_timers, next_id, first_id, shown,
                   now, center_open, notif_list>>
    /\ config_file' = [kind |-> "object",
                       members |-> [k \in DOMAIN config' |-> JsonText(k, config'[k])]]
    /\ UNCHANGED uivars
    /\ UNCHANGED <<Clientes, sqlite_sequence, Ventas, DetalleVenta, Usuarios, Proveedores,
                   Categorias, Descuentos, Empresa, SeriesFacturacion, current_client_id,
                   current_product_id, message, raised, client_form>>
    /\ UNCHANGED dbvars

\* ---------------------------------------------------------------- DBManager
Keys == {"moneda", "empresa_ruc", "tema"}
Vals == {"", "USD"}
Defaults == {None, "claro"}

\* insert_initial_data: two of the seeded settings.
SeedConfiguracion ==
    {[clave |-> "moneda", valor |-> "HNL",
      descripcion |-> "Moneda principal del sistema", categoria |-> "regional",
      fecha_actualizacion |-> 0],
     [clave |-> "empresa_ruc", valor |-> "",
      descripcion |-> "RUC o NIT de la empresa", categoria |-> "empresa",
      fecha_actualizacion |-> 0]}

NoCall == [op |-> "none", clave |-> "", value |-> "", num |-> 0]

get_config_none(T, clave, default) ==
    LET result == {r \in T : r.clave = clave}
    IN IF result # {} THEN (CHOOSE r \in result : TRUE).valor ELSE None

\* fetch("SELECT valor FROM Configuracion WHERE clave = ?"), then
\* result[0][0] if result else default.
get_config(T, clave, default) ==
    LET result == {r \in T : r.clave = clave}
    IN IF result # {} THEN (CHOOSE r \in result : TRUE).valor ELSE default

ConfigRow(clave, valor, t) ==
    [clave |-> clave, valor |-> valor, descripcion |-> None, categoria |-> None,
     fecha_actualizacion |-> t]

\* A plain INSERT: on an existing key the statement fails and execute swallows it.
set_config_insert(T, clave, valor, t) ==
    IF \E r \in T : r.clave = clave THEN T ELSE T \cup {ConfigRow(clave, valor, t)}

\* INSERT OR REPLACE INTO Configuracion (clave, valor, fecha_actualizacion).
set_config(T, clave, valor, t) ==
    {r \in T : r.clave # clave} \cup {ConfigRow(clave, valor, t)}

SetConfig(clave, valor) ==
    /\ Configuracion' = set_config(Configuracion, clave, valor, now)
    /\ ret' = [op |-> "set_config", clave |-> clave, value |-> valor, num |-> 0]
    /\ UNCHANGED <<Productos, MovimientosInventario>>
    /\ UNCHANGED <<nvars, appvars>>

GetConfig(clave, default) ==
    /\ ret' = [op |-> "get_config", clave |-> clave,
               value |-> get_config(Configuracion, clave, default), num |-> 0]
    /\ UNCHANGED <<Configuracion, Productos, MovimientosInventario>>
    /\ UNCHANGED <<nvars, appvars>>

DbTick ==
    /\ now < MaxClock
    /\ now' = now + 1
    /\ UNCHANGED <<targets, countdowns, notification_widgets, notification_history, notification_queue,
                   is_animating, poll_timers, anim_timers, next_id, first_id, shown,
                   config, center_open, notif_list>>
    /\ UNCHANGED <<dbvars, appvars>>

Tipos == {"entrada", "salida", "ajuste"}
Cantidades == {3, 7}
InitStocks == {5, 12}

NewStock(stock_actual, tipo, cantidad) ==
    IF tipo = "entrada" THEN stock_actual + cantidad
    ELSE IF tipo = "salida" THEN stock_actual - cantidad
    ELSE cantidad

MovRow(producto_id, tipo, cantidad, stock_anterior, stock_nuevo) ==
    [producto_id |-> producto_id, tipo_movimiento |-> tipo, cantidad |-> cantidad,
     stock_anterior |-> stock_anterior, stock_nuevo |-> stock_nuevo]

\* A floor at zero on the way out.
registrar_movimiento_inventario_floor(P, M, producto_id, tipo, cantidad) ==
    LET stock_actual == P[producto_id].stock
        n == NewStock(stock_actual, tipo, cantidad)
        nuevo_stock == IF n < 0 THEN 0 ELSE n
    IN [Productos |-> [P EXCEPT ![producto_id].stock = nuevo_stock],
        MovimientosInventario |->
            Append(M, MovRow(producto_id, tipo, cantidad, stock_actual, nuevo_stock)),
        value |-> nuevo_stock]

registrar_movimiento_inventario(P, M, producto_id, tipo, cantidad) ==
    LET stock_actual == P[producto_id].stock
        nuevo_stock == NewStock(stock_actual, tipo, cantidad)
    IN [Productos |-> [P EXCEPT ![producto_id].stock = nuevo_stock],
        MovimientosInventario |->
            Append(M, MovRow(producto_id, tipo, cantidad, stock_actual, nuevo_stock)),
        value |-> nuevo_stock]

Movimiento(producto_id, tipo, cantidad) ==
    LET r == registrar_movimiento_inventario(Productos, MovimientosInventario,
                                             producto_id, tipo, cantidad)
    IN /\ producto_id \in DOMAIN Productos
       /\ Len(MovimientosInventario) < MaxMovs
       /\ r.value \in (0 - MaxStock)..MaxStock
       /\ Productos' = r.Productos
       /\ MovimientosInventario' = r.MovimientosInventario
       /\ ret' = [op |-> "registrar_movimiento_inventario", clave |-> "",
                  value |-> "", num |-> r.value]
       /\ UNCHANGED Configuracion
       /\ UNCHANGED <<nvars, appvars>>

ProductRows(stocks, minimos) == [stock : stocks, stock_minimo : minimos]

DBInitOf(rows) ==
    /\ Configuracion = SeedConfiguracion
    /\ Productos \in [1..NProducts -> rows]
    /\ MovimientosInventario = <<>>
    /\ ret = NoCall

\* The database as insert_initial_data leaves it.
DBSeed == DBInitOf(ProductRows({8}, {2}))

\* ---------------------------------------------------------------- seeds
\* The client form after clear_form.
EmptyForm == [nombre |-> "", apellido |-> "", dni |-> <<>>, email |-> <<>>, activo |-> 1]

\* A message box: show_error, show_warning, show_success, show_question.
Box(kind, title, text) == [kind |-> kind, title |-> title, text |-> text]

NoMessage == Box("none", "", "")

AbsentFile == [kind |-> "absent"]

\* current_client_id / current_product_id = None; the frames test them for truth.
NoSelection == 0

SeedDni == <<"0", "8", "0", "1", "1", "9", "9", "9", "0", "1", "2", "3", "4">>

\* insert_initial_data: two of the four example clients (e-mail addresses
\* shortened to their shape).
SeedClientes ==
    {[id |-> 1, nombre |-> "Juan Carlos", apellido |-> "Perez Gonzalez",
      dni |-> SeedDni, email |-> <<"j", "@", "e", ".", "c">>, activo |-> 1],
     [id |-> 2, nombre |-> "Maria Elena", apellido |-> "Rodriguez Lopez",
      dni |-> <<"0", "8", "0", "1", "2", "0", "0", "0", "0", "5", "6", "7", "8">>,
      email |-> <<"m", "@", "e", ".", "c">>, activo |-> 1]}

\* insert_initial_data: the default rows (by name) of the tables seeded with
\* plain lists; the example supplier "Distribuidora Central" with its texts
\* shortened (contact "Juan Perez", category "Tecnologia").
SeedRows ==
    [Usuarios |-> <<"admin">>,
     Proveedores |-> <<[nombre |-> <<"D", "c">>, contacto |-> <<"J", "p">>,
                        email |-> <<"v", "@", "d">>, categoria |-> <<"T", "e", "c">>,
                        estado |-> "Activo"]>>,
     Categorias |-> <<"Tecnologia", "Oficina", "Hogar", "Electrodomesticos">>,
     Descuentos |-> <<"Docena 10%", "Mayorista 15%", "Cliente Frecuente 5%">>,
     Empresa |-> <<"Mi Empresa ERP">>,
     SeriesFacturacion |-> <<"A">>]

NoSales == [Ventas |-> {}, DetalleVenta |-> {}]

\* NotificationManager.__init__ builds stock_check_timer and auto_clean_timer
\* (interval and slot set, not started); ERPMainWindow.__init__ then starts
\* stock_check_timer.
Timers == {"stock_check_timer", "auto_clean_timer"}

\* Two callers of registrar_movimiento_inventario, neither inside a call.
Callers == {1, 2}

IdleCall == [pc |-> "idle", producto_id |-> 0, tipo |-> "", cantidad |-> 0,
             stock_actual |-> 0, nuevo_stock |-> 0]

\* ---------------------------------------------------------------- ProductFrame
MaxProducts == 3

ProductForms ==
    [nombre : {"", "Mouse"}, precio : {0, 35}, stock : {5}, proveedor_index : {-1, 0}]

\* fetch("SELECT nombre, precio, stock, ... WHERE id = ?"): the selection is
\* taken when the row exists.
load_product_details(P, current, product_id) ==
    IF product_id \in DOMAIN P THEN product_id ELSE current

LoadProductDetails(product_id) ==
    /\ current_product_id' = load_product_details(Productos, current_product_id, product_id)
    /\ UNCHANGED uivars
    /\ UNCHANGED <<Clientes, sqlite_sequence, Ventas, DetalleVenta, Usuarios, Proveedores,
                   Categorias, Descuentos, Empresa, SeriesFacturacion, current_client_id,
                   message, config_file, raised, client_form>>
    /\ UNCHANGED <<nvars, dbvars>>

\* ProductFrame.validate_form: the error it shows, or NoMessage when it passes.
product_validate_form(f) ==
    IF f.nombre = "" THEN Box("error", "Error de Validacion", "El nombre del producto es obligatorio")
    ELSE IF f.precio <= 0 THEN Box("error", "Error de Validacion", "El precio debe ser mayor a 0")
    ELSE IF f.stock < 0 THEN Box("error", "Error de Validacion", "El stock no puede ser negativo")
    ELSE IF f.proveedor_index < 0 THEN Box("error", "Error de Validacion", "Seleccione un proveedor")
    ELSE NoMessage

\* UPDATE Productos SET ..., stock=?, ... WHERE id=? on a selected product,
\* INSERT INTO Productos (..., stock, ...) otherwise; then reset_form.
save_product(P, current, f) ==
    IF product_validate_form(f) # NoMessage
    THEN [Productos |-> P, current_product_id |-> current,
          message |-> product_validate_form(f)]
    ELSE IF current # NoSelection
    THEN [Productos |-> IF current \in DOMAIN P
                        THEN [P EXCEPT ![current].stock = f.stock] ELSE P,
          current_product_id |-> NoSelection,
          message |-> [kind |-> "success", title |-> "Producto Actualizado",
                       text |-> "Producto actualizado correctamente"]]
    ELSE [Productos |-> [i \in DOMAIN P \cup {(Cardinality(DOMAIN P) + 1)} |->
                            IF i \in DOMAIN P THEN P[i]
                            ELSE [stock |-> f.stock, stock_minimo |-> StockFloor]],
          current_product_id |-> NoSelection,
          message |-> [kind |-> "success", title |-> "Producto Registrado",
                       text |-> "Producto registrado correctamente"]]

SaveProduct(f) ==
    LET r == save_product(Productos, current_product_id, f)
    IN /\ Cardinality(DOMAIN r.Productos) <= MaxProducts
       /\ Productos' = r.Productos
       /\ current_product_id' = r.current_product_id
       /\ message' = r.message
       /\ UNCHANGED <<Configuracion, MovimientosInventario, ret>>
       /\ UNCHANGED uivars
       /\ UNCHANGED <<Clientes, sqlite_sequence, Ventas, DetalleVenta, Usuarios,
                      Proveedores, Categorias, Descuentos, Empresa, SeriesFacturacion,
                      current_client_id, config_file, raised, client_form>>
       /\ UNCHANGED nvars

\* ---------------------------------------------------------------- DBManager gateway
\* What the driver does with one call: nothing goes wrong, the statement is
\* refused (cursor.execute raises sqlite3.Error, the statement's changes are
\* backed out), or the commit is refused (conn.commit raises sqlite3.Error
\* with the statement already applied on this connection).
Outcomes == {"ok", "statement", "commit"}

\* try: cursor.execute; return cursor.fetchall()  except sqlite3.Error: return []
fetch(rows, failed) == IF failed THEN {} ELSE rows

\* try: cursor.execute; conn.commit; return cursor.lastrowid
\* except sqlite3.Error: return None      (value 0 stands for None)
execute(T, T_after, lastrowid, outcome) ==
    CASE outcome = "ok" -> [T |-> T_after, value |-> lastrowid]
      [] outcome = "statement" -> [T |-> T, value |-> 0]
      [] outcome = "commit" -> [T |-> T_after, value |-> 0]

\* ---------------------------------------------------------------- ClientsFrame
MaxEmailLen == 6
MaxSaves == 3

Digits == {"0", "1", "2", "3", "4", "5", "6", "7", "8", "9"}
EmailAlphabet == {"a", "@", ".", " "}

\* SQL NULL in a text column.
SqlNull == <<None>>

\* str.strip()
Strip(s) ==
    LET idx == {i \in 1..Len(s) : s[i] # " "}
        lo == CHOOSE i \in idx : \A j \in idx : i <= j
        hi == CHOOSE i \in idx : \A j \in idx : j <= i
    IN IF idx = {} THEN <<>> ELSE SubSeq(s, lo, hi)

\* re.match(r"^[^@]+@[^@]+\.[^@]+$", email): some '@' at i and some '.' at j
\* with a non-empty '@'-free run before i, between i and j, and after j.
EmailMatch(s) ==
    \E i, j \in 1..Len(s) :
        /\ 1 < i /\ i + 1 < j /\ j < Len(s)
        /\ s[i] = "@" /\ s[j] = "."
        /\ \A k \in 1..Len(s) : (k # i) => s[k] # "@"

\* re.match(r"^[0-9]{13}$", dni)
DniMatch(s) == Len(s) = 13 /\ \A i \in 1..Len(s) : s[i] \in Digits

\* The e-mail pattern without its anchors.
client_validate_form_search(f) ==
    IF f.nombre = "" THEN Box("error", "Error de Validacion", "El nombre es obligatorio")
    ELSE IF f.apellido = "" THEN Box("error", "Error de Validacion", "El apellido es obligatorio")
    ELSE IF /\ Strip(f.email) # <<>>
            /\ LET s == Strip(f.email)
               IN ~\E i, j \in 1..Len(s) :
                      /\ 1 < i /\ i + 1 < j /\ j < Len(s)
                      /\ s[i] = "@" /\ s[j] = "."
                      /\ s[i - 1] # "@"
                      /\ \A k \in (i + 1)..(j - 1) : s[k] # "@"
                      /\ s[j + 1] # "@"
    THEN Box("error", "Error de Validacion", "Formato de email invalido")
    ELSE IF Strip(f.dni) # <<>> /\ ~DniMatch(Strip(f.dni))
    THEN Box("error", "Error de Validacion", "El DNI debe tener 13 digitos")
    ELSE NoMessage

\* ClientsFrame.validate_form: the error it shows, or NoMessage when it passes.
client_validate_form(f) ==
    IF f.nombre = "" THEN Box("error", "Error de Validacion", "El nombre es obligatorio")
    ELSE IF f.apellido = "" THEN Box("error", "Error de Validacion", "El apellido es obligatorio")
    ELSE IF Strip(f.email) # <<>> /\ ~EmailMatch(Strip(f.email))
    THEN Box("error", "Error de Validacion", "Formato de email invalido")
    ELSE IF Strip(f.dni) # <<>> /\ ~DniMatch(Strip(f.dni))
    THEN Box("error", "Error de Validacion", "El DNI debe tener 13 digitos")
    ELSE NoMessage

\* text().strip() or None
OrNone(s) == IF Strip(s) = <<>> THEN SqlNull ELSE Strip(s)

\* Columns of table Clientes, and the names load_client_details and
\* populate_table unpack a "SELECT *" row into.
ClientesColumns == 12
UnpackedNames == 9

\* UNIQUE(dni): NULLs never collide.
UniqueViolation(C, id, dni) ==
    dni # SqlNull /\ \E r \in C : r.id # id /\ r.dni = dni

ClientRow(id, f, dni, email) ==
    [id |-> id, nombre |-> f.nombre, apellido |-> f.apellido, dni |-> dni,
     email |-> email, activo |-> f.activo]

UpdateCliente(C, id, f, dni, email) ==
    {IF r.id = id THEN ClientRow(id, f, dni, email) ELSE r : r \in C}

ClientSaved(current) ==
    IF current # NoSelection
    THEN [kind |-> "success", title |-> "Cliente Actualizado",
          text |-> "Cliente actualizado correctamente"]
    ELSE [kind |-> "success", title |-> "Cliente Registrado",
          text |-> "Cliente registrado correctamente"]

\* The ID field stored as typed, the empty text included.
save_client_keeps_empty(C, seq, current, f, fault) ==
    LET dni == Strip(f.dni)
        email == OrNone(f.email)
        outcome == IF UniqueViolation(C, current, dni) THEN "statement" ELSE fault
        after == IF current # NoSelection
                 THEN UpdateCliente(C, current, f, dni, email)
                 ELSE C \cup {ClientRow(seq + 1, f, dni, email)}
        r == execute(C, after, seq + 1, outcome)
    IN IF client_validate_form(f) # NoMessage
       THEN [Clientes |-> C, sqlite_sequence |-> seq, current_client_id |-> current,
             message |-> client_validate_form(f), client_form |-> f,
             called |-> FALSE, value |-> 0, params |-> <<>>]
       ELSE [Clientes |-> r.T,
             sqlite_sequence |-> IF current = NoSelection /\ r.T # C THEN seq + 1 ELSE seq,
             current_client_id |-> NoSelection,
             message |-> ClientSaved(current), client_form |-> EmptyForm,
             called |-> TRUE, value |-> r.value,
             params |-> <<f.nombre, f.apellido, dni, email>>]

\* ClientsFrame.save_client: UPDATE on a selected client, INSERT otherwise;
\* execute reports a refused statement by returning None, which save_client
\* does not look at, so the success box follows either way; then clear_form.
save_client(C, seq, current, f, fault) ==
    LET dni == OrNone(f.dni)
        email == OrNone(f.email)
        outcome == IF UniqueViolation(C, current, dni) THEN "statement" ELSE fault
        after == IF current # NoSelection
                 THEN UpdateCliente(C, current, f, dni, email)
                 ELSE C \cup {ClientRow(seq + 1, f, dni, email)}
        r == execute(C, after, seq + 1, outcome)
    IN IF client_validate_form(f) # NoMessage
       THEN [Clientes |-> C, sqlite_sequence |-> seq, current_client_id |-> current,
             message |-> client_validate_form(f), client_form |-> f,
             called |-> FALSE, value |-> 0, params |-> <<>>]
       ELSE [Clientes |-> r.T,
             sqlite_sequence |-> IF current = NoSelection /\ r.T # C THEN seq + 1 ELSE seq,
             current_client_id |-> NoSelection,
             message |-> ClientSaved(current), client_form |-> EmptyForm,
             called |-> TRUE, value |-> r.value,
             params |-> <<f.nombre, f.apellido, dni, email>>]

SaveClient(f, fault) ==
    LET r == save_client(Clientes, sqlite_sequence, current_client_id, f, fault)
    IN /\ sqlite_sequence < Cardinality(SeedClientes) + MaxSaves
       /\ Clientes' = r.Clientes
       /\ sqlite_sequence' = r.sqlite_sequence
       /\ current_client_id' = r.current_client_id
       /\ message' = r.message
       /\ client_form' = r.client_form
       /\ ret' = IF r.called
                 THEN [op |-> "execute", clave |-> fault, value |-> "", num |-> r.value,
                       params |-> r.params]
                 ELSE ret
       /\ UNCHANGED uivars
       /\ UNCHANGED <<Ventas, DetalleVenta, Usuarios, Proveedores, Categorias, Descuentos,
                      Empresa, SeriesFacturacion, current_product_id, config_file, raised>>
       /\ UNCHANGED <<Configuracion, Productos, MovimientosInventario>>
       /\ UNCHANGED nvars

\* fetch("SELECT * FROM Clientes WHERE id = ?"), then the row unpacked into
\* nine names; the ValueError of a longer row is caught and printed, and the
\* assignment to current_client_id after it is skipped.
load_client_details(C, current, client_id) ==
    IF \E r \in C : r.id = client_id
    THEN IF ClientesColumns = UnpackedNames THEN client_id ELSE current
    ELSE current

LoadClientDetails(client_id) ==
    /\ current_client_id' = load_client_details(Clientes, current_client_id, client_id)
    /\ ret' = [op |-> "load_client_details", clave |-> "", value |-> "", num |-> client_id]
    /\ UNCHANGED uivars
    /\ UNCHANGED <<Clientes, sqlite_sequence, Ventas, DetalleVenta, Usuarios, Proveedores,
                   Categorias, Descuentos, Empresa, SeriesFacturacion, current_product_id,
                   message, config_file, raised, client_form>>
    /\ UNCHANGED <<Configuracion, Productos, MovimientosInventario>>
    /\ UNCHANGED nvars

Replies == {"Yes", "No"}

SalesOf(V, client_id) == {v \in V : v.id_cliente = client_id}

\* ClientsFrame.delete_client; reply and reply2 are the user's answers to the
\* first and the second question box, when they are shown.
delete_client(C, V, D, current, reply, reply2) ==
    LET tiene_ventas == SalesOf(V, current) # {}
        same == [Clientes |-> C, Ventas |-> V, DetalleVenta |-> D,
                 current_client_id |-> NoSelection, cleared |-> TRUE]
    IN IF current = NoSelection
       THEN [Clientes |-> C, Ventas |-> V, DetalleVenta |-> D,
             current_client_id |-> current, cleared |-> FALSE,
             message |-> [kind |-> "warning", title |-> "Advertencia",
                          text |-> "Seleccione un cliente para eliminar"]]
       ELSE IF tiene_ventas
       THEN IF reply = "Yes"
            THEN [same EXCEPT
                    !.Clientes = {IF r.id = current THEN [r EXCEPT !.activo = 0] ELSE r
                                    : r \in C}]
                 @@ [message |-> Box("success", "Cliente Desactivado",
                                         "Cliente desactivado correctamente")]
            ELSE IF reply2 = "Yes"
            THEN [Clientes |-> {r \in C : r.id # current},
                  Ventas |-> V \ SalesOf(V, current),
                  DetalleVenta |->
                      {d \in D : d.venta_id \notin {v.id : v \in SalesOf(V, current)}},
                  current_client_id |-> NoSelection, cleared |-> TRUE,
                  message |-> Box("success", "Cliente Eliminado",
                                      "Cliente y ventas asociadas eliminados")]
            ELSE same @@ [message |-> Box("question", "Confirmacion", "")]
       ELSE IF reply = "Yes"
       THEN [same EXCEPT !.Clientes = {r \in C : r.id # current}]
            @@ [message |-> Box("success", "Cliente Eliminado", "Cliente eliminado correctamente")]
       ELSE same @@ [message |-> Box("question", "Confirmacion", "")]

DeleteClient(reply, reply2) ==
    LET r == delete_client(Clientes, Ventas, DetalleVenta, current_client_id, reply, reply2)
    IN /\ Clientes' = r.Clientes
       /\ Ventas' = r.Ventas
       /\ DetalleVenta' = r.DetalleVenta
       /\ current_client_id' = r.current_client_id
       /\ message' = r.message
       /\ client_form' = IF r.cleared THEN EmptyForm ELSE client_form
       /\ ret' = [op |-> "delete_client", clave |-> "", value |-> "", num |-> current_client_id]
       /\ UNCHANGED uivars
       /\ UNCHANGED <<sqlite_sequence, Usuarios, Proveedores, Categorias, Descuentos,
                      Empresa, SeriesFacturacion, current_product_id, config_file, raised>>
       /\ UNCHANGED <<Configuracion, Productos, MovimientosInventario>>
       /\ UNCHANGED nvars

\* DBManager.fetch("SELECT * FROM Clientes"), as load_clients calls it.
FetchClientes(failed) ==
    /\ ret' = [op |-> "fetch", clave |-> IF failed THEN "statement" ELSE "ok",
               value |-> "", num |-> 0, rows |-> fetch(Clientes, failed)]
    /\ UNCHANGED appvars
    /\ UNCHANGED <<Configuracion, Productos, MovimientosInventario>>
    /\ UNCHANGED nvars

\* Texts the user can type into the ID field: nothing, a seeded client's ID,
\* and sevens with at most one letter among them.
PatternDni(len, bad) == [i \in 1..len |-> IF i = bad THEN "x" ELSE "7"]

FormDnis ==
    {<<>>, SeedDni} \cup {PatternDni(len, bad) : len \in {12, 13, 14}, bad \in {0, 1, 13}}

FormEmails == UNION {[1..n -> EmailAlphabet] : n \in 0..MaxEmailLen}

ClientForm(names, dni, email) ==
    [nombre |-> names[1], apellido |-> names[2], dni |-> dni, email |-> email, activo |-> 1]

\* Every text of the bounded alphabets.
AllClientForms ==
    {ClientForm(n, d, e) : n \in {<<"Ana", "Paz">>, <<"", "Paz">>, <<"Ana", "">>}, d \in FormDnis, e \in FormEmails}

\* Well-formed names and no e-mail address; the ID field varies.
ClientForms ==
    {ClientForm(<<"Ana", "Paz">>, d, <<>>) : d \in {<<>>, SeedDni, PatternDni(13, 0)}}

\* Sales recorded for the seeded clients, with their lines.
SalesRows ==
    {NoSales,
     [Ventas |-> {[id |-> "V1", id_cliente |-> 1]},
      DetalleVenta |-> {[id |-> 1, venta_id |-> "V1"]}],
     [Ventas |-> {[id |-> "V1", id_cliente |-> 1], [id |-> "V2", id_cliente |-> 2]},
      DetalleVenta |-> {[id |-> 1, venta_id |-> "V1"], [id |-> 2, venta_id |-> "V1"],
                        [id |-> 3, venta_id |-> "V2"]}]}

\* ---------------------------------------------------------------- seeding
MaxDescuentos == 4

\* insert_initial_data: the five example products (stock, stock_minimo).
SeedProductos ==
    <<[stock |-> 15, stock_minimo |-> 5], [stock |-> 105, stock_minimo |-> 10],
      [stock |-> 50, stock_minimo |-> 5], [stock |-> 8, stock_minimo |-> 2],
      [stock |-> 12, stock_minimo |-> 3]>>

\* if not self.fetch("SELECT * FROM <table>"): insert the default rows.
SeedIfEmpty(T, empty, seed) == IF T = empty THEN seed ELSE T

\* Tables: the database as a record of its seeded tables.
Tables ==
    [Configuracion |-> Configuracion, Usuarios |-> Usuarios, Proveedores |-> Proveedores,
     Categorias |-> Categorias, Descuentos |-> Descuentos, Productos |-> Productos,
     Clientes |-> Clientes, sqlite_sequence |-> sqlite_sequence, Empresa |-> Empresa,
     SeriesFacturacion |-> SeriesFacturacion]

\* The discounts inserted whether or not the table is empty.
insert_initial_data_always(db) ==
    LET categorias == SeedIfEmpty(db.Categorias, <<>>, SeedRows.Categorias)
        proveedores == SeedIfEmpty(db.Proveedores, <<>>, SeedRows.Proveedores)
        lookup_fails == /\ db.Productos = <<>>
                        /\ \/ "Tecnologia" \notin Range(categorias)
                           \/ proveedores = <<>>
    IN [Configuracion |-> SeedIfEmpty(db.Configuracion, {}, SeedConfiguracion),
        Usuarios |-> SeedIfEmpty(db.Usuarios, <<>>, SeedRows.Usuarios),
        Proveedores |-> proveedores,
        Categorias |-> categorias,
        Descuentos |-> db.Descuentos \o SeedRows.Descuentos,
        Productos |-> IF lookup_fails THEN db.Productos
                      ELSE SeedIfEmpty(db.Productos, <<>>, SeedProductos),
        Clientes |-> IF lookup_fails THEN db.Clientes
                     ELSE SeedIfEmpty(db.Clientes, {}, SeedClientes),
        sqlite_sequence |-> IF ~lookup_fails /\ db.Clientes = {}
                            THEN db.sqlite_sequence + Cardinality(SeedClientes)
                            ELSE db.sqlite_sequence,
        Empresa |-> IF lookup_fails THEN db.Empresa
                    ELSE SeedIfEmpty(db.Empresa, <<>>, SeedRows.Empresa),
        SeriesFacturacion |-> IF lookup_fails THEN db.SeriesFacturacion
                              ELSE SeedIfEmpty(db.SeriesFacturacion, <<>>, SeedRows.SeriesFacturacion),
        raised |-> lookup_fails]

\* DBManager.insert_initial_data: table after table, in the code's order. The
\* product seeds look up the category 'Tecnología' and the first supplier
\* with fetch(...)[0][0]; an IndexError there leaves the method.
insert_initial_data(db) ==
    LET categorias == SeedIfEmpty(db.Categorias, <<>>, SeedRows.Categorias)
        proveedores == SeedIfEmpty(db.Proveedores, <<>>, SeedRows.Proveedores)
        lookup_fails == /\ db.Productos = <<>>
                        /\ \/ "Tecnologia" \notin Range(categorias)
                           \/ proveedores = <<>>
    IN [Configuracion |-> SeedIfEmpty(db.Configuracion, {}, SeedConfiguracion),
        Usuarios |-> SeedIfEmpty(db.Usuarios, <<>>, SeedRows.Usuarios),
        Proveedores |-> proveedores,
        Categorias |-> categorias,
        Descuentos |-> SeedIfEmpty(db.Descuentos, <<>>, SeedRows.Descuentos),
        Productos |-> IF lookup_fails THEN db.Productos
                      ELSE SeedIfEmpty(db.Productos, <<>>, SeedProductos),
        Clientes |-> IF lookup_fails THEN db.Clientes
                     ELSE SeedIfEmpty(db.Clientes, {}, SeedClientes),
        sqlite_sequence |-> IF ~lookup_fails /\ db.Clientes = {}
                            THEN db.sqlite_sequence + Cardinality(SeedClientes)
                            ELSE db.sqlite_sequence,
        Empresa |-> IF lookup_fails THEN db.Empresa
                    ELSE SeedIfEmpty(db.Empresa, <<>>, SeedRows.Empresa),
        SeriesFacturacion |-> IF lookup_fails THEN db.SeriesFacturacion
                              ELSE SeedIfEmpty(db.SeriesFacturacion, <<>>, SeedRows.SeriesFacturacion),
        raised |-> lookup_fails]

\* The application starts: DBManager() on the existing database file.
InsertInitialData ==
    LET r == insert_initial_data(Tables)
    IN /\ Configuracion' = r.Configuracion
       /\ Usuarios' = r.Usuarios
       /\ Proveedores' = r.Proveedores
       /\ Categorias' = r.Categorias
       /\ Descuentos' = r.Descuentos
       /\ Productos' = r.Productos
       /\ Clientes' = r.Clientes
       /\ sqlite_sequence' = r.sqlite_sequence
       /\ Empresa' = r.Empresa
       /\ SeriesFacturacion' = r.SeriesFacturacion
       /\ raised' = r.raised
       /\ ret' = [op |-> "insert_initial_data", clave |-> "", value |-> "", num |-> 0]
       /\ current_client_id' = NoSelection
       /\ current_product_id' = NoSelection
       /\ client_form' = EmptyForm
       /\ message' = NoMessage
       /\ UNCHANGED <<MovimientosInventario, Ventas, DetalleVenta, config_file>>
       /\ UNCHANGED uivars
       /\ UNCHANGED nvars

\* ---------------------------------------------------------------- ConfigFrame
\* ConfigFrame.save_discount: UPDATE the row named by the hidden id field,
\* INSERT when that field is empty (row 0).
save_discount(D, nombre, row) ==
    IF nombre = "" THEN D
    ELSE IF row # 0
    THEN IF row \in 1..Len(D) THEN [D EXCEPT ![row] = nombre] ELSE D
    ELSE Append(D, nombre)

SaveDiscount(nombre, row) ==
    /\ Len(save_discount(Descuentos, nombre, row)) <= MaxDescuentos
    /\ Descuentos' = save_discount(Descuentos, nombre, row)
    /\ message' = IF nombre = ""
                  THEN [kind |-> "warning", title |-> "Validacion",
                        text |-> "El nombre del descuento es obligatorio."]
                  ELSE [kind |-> "information", title |-> "Exito",
                        text |-> "Descuento guardado correctamente."]
    /\ UNCHANGED uivars
    /\ UNCHANGED <<Clientes, sqlite_sequence, Ventas, DetalleVenta, Usuarios, Proveedores,
                   Categorias, Empresa, SeriesFacturacion, current_client_id,
                   current_product_id, config_file, raised, client_form>>
    /\ UNCHANGED <<nvars, dbvars>>

\* ConfigFrame.delete_discount on the table's current row (0: none).
delete_discount(D, current_row, reply) ==
    IF current_row \in 1..Len(D) /\ reply = "Yes"
    THEN [i \in 1..(Len(D) - 1) |-> IF i < current_row THEN D[i] ELSE D[i + 1]]
    ELSE D

DeleteDiscount(current_row, reply) ==
    /\ current_row \in 0..Len(Descuentos)
    /\ Descuentos' = delete_discount(Descuentos, current_row, reply)
    /\ message' = IF current_row = 0
                  THEN [kind |-> "warning", title |-> "Seleccion",
                        text |-> "Seleccione un descuento para eliminar."]
                  ELSE IF reply = "Yes"
                  THEN [kind |-> "information", title |-> "Exito",
                        text |-> "Descuento eliminado correctamente."]
                  ELSE Box("question", "Confirmar Eliminacion", "")
    /\ UNCHANGED uivars
    /\ UNCHANGED <<Clientes, sqlite_sequence, Ventas, DetalleVenta, Usuarios, Proveedores,
                   Categorias, Empresa, SeriesFacturacion, current_client_id,
                   current_product_id, config_file, raised, client_form>>
    /\ UNCHANGED <<nvars, dbvars>>

\* ---------------------------------------------------------------- notification_config.json
MaxArrayLen == 2

FileKeys == {"stock_alerts", "auto_clear_days", "volume"}

\* Values a saved document gives to its keys: an alert switch, the retention
\* days, and a key the defaults do not have.
FileValues ==
    [stock_alerts : {"true", "false"}, auto_clear_days : {"1", "30"}, volume : {"3", "7"}]

\* Elements of a JSON array: two-element arrays [key, value], and a number.
Pair(k, v) == [is_pair |-> TRUE, key |-> k, value |-> v]

Number == [is_pair |-> FALSE, key |-> "", value |-> "5"]

Elements == {Number} \cup {Pair(k, v[k]) : k \in FileKeys, v \in FileValues}

\* What notification_config.json can be: missing, not openable, not JSON, a
\* JSON number, a JSON object, or a JSON array.
Files ==
    {AbsentFile, [kind |-> "unreadable"], [kind |-> "invalid"], [kind |-> "number"]}
    \cup {[kind |-> "object", members |-> [k \in keys |-> v[k]]] : keys \in SUBSET FileKeys, v \in FileValues}
    \cup UNION {{[kind |-> "array", items |-> items] : items \in [1..n -> Elements]}
                : n \in 0..MaxArrayLen}

\* d[k] = the parsed value
SetItem(d, k, text) == [x \in DOMAIN d \cup {k} |-> IF x = k THEN JsonValue(text) ELSE d[x]]

\* dict.update(mapping)
RECURSIVE UpdateMembers(_, _)
UpdateMembers(d, members) ==
    IF DOMAIN members = {} THEN d
    ELSE LET k == CHOOSE x \in DOMAIN members : TRUE
         IN UpdateMembers(SetItem(d, k, members[k]),
                          [x \in DOMAIN members \ {k} |-> members[x]])

\* dict.update(iterable): element after element; one that is not a pair
\* raises, with the earlier ones already stored.
RECURSIVE UpdateItems(_, _)
UpdateItems(d, items) ==
    IF items = <<>> THEN [dict |-> d, raised |-> FALSE]
    ELSE IF ~Head(items).is_pair THEN [dict |-> d, raised |-> TRUE]
    ELSE UpdateItems(SetItem(d, Head(items).key, Head(items).value), Tail(items))

\* NotificationManager.load_config: os.path.exists, open, json.load and
\* self.config.update(saved_config), every Exception swallowed.
load_config(c, file) ==
    CASE file.kind = "absent" -> c
      [] file.kind = "unreadable" -> c
      [] file.kind = "invalid" -> c
      [] file.kind = "number" -> c
      [] file.kind = "object" -> UpdateMembers(c, file.members)
      [] file.kind = "array" -> UpdateItems(c, file.items).dict

\* NotificationManager.__init__: the defaults, then load_config().
LoadConfig ==
    /\ config' = load_config(DefaultConfig, config_file)
    /\ raised' = FALSE
    /\ UNCHANGED <<targets, countdowns, notification_widgets, notification_history, notification_queue,
                   is_animating, poll_timers, anim_timers, next_id, first_id, shown,
                   now, center_open, notif_list>>
    /\ UNCHANGED uivars
    /\ UNCHANGED <<Clientes, sqlite_sequence, Ventas, DetalleVenta, Usuarios, Proveedores,
                   Categorias, Descuentos, Empresa, SeriesFacturacion, current_client_id,
                   current_product_id, message, config_file, client_form>>
    /\ UNCHANGED dbvars

\* ---------------------------------------------------------------- repeating timers
\* A started repeating timer times out: the event loop calls the slot connected
\* to it in NotificationManager.__init__ (check_stock_alerts for
\* stock_check_timer, auto_clean_history for auto_clean_timer).
Timeout(timer) ==
    /\ timer \in active_timers
    /\ LET m == IF timer = "stock_check_timer"
                THEN check_stock_alerts(Mgr, config, Productos, now)
                ELSE [Mgr EXCEPT !.history = auto_clean_history(@, config, now)]
       IN /\ m.next_id - first_id <= MaxEmit
          /\ SetMgr(m)
    /\ UNCHANGED <<first_id, config, now, center_open, notif_list>>
    /\ UNCHANGED <<dbvars, appvars>>

\* ---------------------------------------------------------------- concurrent movements
\* registrar_movimiento_inventario statement by statement, for callers that
\* run it at the same time (each fetch and each execute is one statement,
\* and execute commits on its own).
\* stock_actual = fetch("SELECT stock ...")[0][0], then nuevo_stock.
read_stock(P, producto_id, tipo, cantidad) ==
    LET stock_actual == P[producto_id].stock
    IN [pc |-> "update", producto_id |-> producto_id, tipo |-> tipo, cantidad |-> cantidad,
        stock_actual |-> stock_actual,
        nuevo_stock |-> NewStock(stock_actual, tipo, cantidad)]

\* UPDATE Productos SET stock = stock + ? (the change applied in the statement).
update_stock_relative(P, call) ==
    [P EXCEPT ![call.producto_id].stock = NewStock(@, call.tipo, call.cantidad)]

\* execute("UPDATE Productos SET stock = ? WHERE id = ?", (nuevo_stock, producto_id))
update_stock(P, call) ==
    [P EXCEPT ![call.producto_id].stock = call.nuevo_stock]

\* execute("INSERT INTO MovimientosInventario ...")
insert_movimiento(M, call) ==
    Append(M, MovRow(call.producto_id, call.tipo, call.cantidad,
                     call.stock_actual, call.nuevo_stock))

InFlight == {p \in Callers : calls[p].pc \in {"update", "insert"}}

ReadStock(p, producto_id, tipo, cantidad) ==
    LET call == read_stock(Productos, producto_id, tipo, cantidad)
    IN /\ calls[p].pc \in {"idle", "returned"}
       /\ producto_id \in DOMAIN Productos
       /\ Len(MovimientosInventario) + Cardinality(InFlight) < MaxMovs
       /\ call.nuevo_stock \in (0 - MaxStock)..MaxStock
       /\ calls' = [calls EXCEPT ![p] = call]
       /\ UNCHANGED <<dbvars, nvars>>
       /\ UNCHANGED <<Clientes, sqlite_sequence, Ventas, DetalleVenta, Usuarios, Proveedores,
                      Categorias, Descuentos, Empresa, SeriesFacturacion, current_client_id,
                      current_product_id, message, config_file, raised, client_form,
                      active_timers, supplier_frame>>

UpdateStock(p) ==
    /\ calls[p].pc = "update"
    /\ Productos' = update_stock(Productos, calls[p])
    /\ calls' = [calls EXCEPT ![p].pc = "insert"]
    /\ UNCHANGED <<Configuracion, MovimientosInventario, ret, nvars>>
    /\ UNCHANGED <<Clientes, sqlite_sequence, Ventas, DetalleVenta, Usuarios, Proveedores,
                   Categorias, Descuentos, Empresa, SeriesFacturacion, current_client_id,
                   current_product_id, message, config_file, raised, client_form,
                   active_timers, supplier_frame>>

InsertMovimiento(p) ==
    /\ calls[p].pc = "insert"
    /\ MovimientosInventario' = insert_movimiento(MovimientosInventario, calls[p])
    /\ calls' = [calls EXCEPT ![p].pc = "returned"]
    /\ ret' = [op |-> "registrar_movimiento_inventario", clave |-> "",
               value |-> "", num |-> calls[p].nuevo_stock]
    /\ UNCHANGED <<Configuracion, Productos, nvars>>
    /\ UNCHANGED <<Clientes, sqlite_sequence, Ventas, DetalleVenta, Usuarios, Proveedores,
                   Categorias, Descuentos, Empresa, SeriesFacturacion, current_client_id,
                   current_product_id, message, config_file, raised, client_form,
                   active_timers, supplier_frame>>

\* ---------------------------------------------------------------- SupplierFrame
MaxSuppliers == 2

\* The characters of the modelled texts, in the order of their codes
\* (the BINARY collation of ORDER BY).
Alphabet ==
    <<" ", "@", "A", "B", "D", "J", "S", "T",
      "a", "b", "c", "d", "e", "j", "p", "s", "t", "v">>

Code(c) == CHOOSE i \in 1..Len(Alphabet) : Alphabet[i] = c

\* str.lower() and SQL LOWER(), which agree on these characters.
Lower(s) ==
    [i \in 1..Len(s) |->
        CASE s[i] = "A" -> "a" [] s[i] = "B" -> "b" [] s[i] = "D" -> "d"
          [] s[i] = "J" -> "j" [] s[i] = "S" -> "s" [] s[i] = "T" -> "t"
          [] OTHER -> s[i]]

\* s sorts before t.
Before(s, t) ==
    \E k \in 0..Len(s) :
        /\ k <= Len(t)
        /\ SubSeq(s, 1, k) = SubSeq(t, 1, k)
        /\ \/ k = Len(s) /\ k < Len(t)
           \/ k < Len(s) /\ k < Len(t) /\ Code(s[k + 1]) < Code(t[k + 1])

\* column LIKE '%term%' for a term without % and _.
Like(column, term) ==
    /\ column # SqlNull
    /\ \E k \in 0..(Len(column) - Len(term)) : SubSeq(column, k + 1, k + Len(term)) = term

\* ORDER BY nombre over the rows ids of P (rows of one name in id order).
RECURSIVE OrderByNombre(_, _)
OrderByNombre(P, ids) ==
    IF ids = {} THEN <<>>
    ELSE LET first == CHOOSE i \in ids : \A j \in ids \ {i} :
                          \/ Before(P[i].nombre, P[j].nombre)
                          \/ P[i].nombre = P[j].nombre /\ i < j
         IN <<first>> \o OrderByNombre(P, ids \ {first})

\* The items of status_filter and of the form's status combo box.
StatusFilters == {"Todos", "Activos", "Inactivos", "Suspendidos"}
Estados == {"Activo", "Inactivo", "Suspendido", "En evaluacion"}

\* "Todas las categorías", the first item of category_filter.
TodasLasCategorias == <<"T", "o", "d", "a", "s">>

\* SupplierFrame.load_suppliers: the ids of all rows, by name.
load_suppliers(P) == OrderByNombre(P, DOMAIN P)

\* SupplierFrame.filter_suppliers: the WHERE clause grows by one AND per
\* filter in use; the ids of the rows fetched, by name.
filter_suppliers(P, search_text, category_filter, status_filter) ==
    LET search_term == Lower(Strip(search_text))
        Where(id) ==
            /\ search_term # <<>> =>
                  \/ Like(Lower(P[id].nombre), search_term)
                  \/ Like(Lower(P[id].contacto), search_term)
                  \/ Like(Lower(P[id].email), search_term)
            /\ category_filter # TodasLasCategorias => P[id].categoria = category_filter
            /\ status_filter # "Todos" => P[id].estado = status_filter
    IN OrderByNombre(P, {id \in DOMAIN P : Where(id)})

\* SELECT DISTINCT categoria ... WHERE categoria IS NOT NULL, empty texts dropped.
Categories(P) == {P[id].categoria : id \in DOMAIN P} \ {SqlNull, <<>>}

\* SupplierFrame.load_categories: both combo boxes are cleared and refilled;
\* category_filter is back on its first item, and its change of text runs
\* filter_suppliers.
load_categories(frame, P) ==
    [frame EXCEPT !.supplier_categories = Categories(P),
                  !.category_filter = TodasLasCategorias,
                  !.rows = filter_suppliers(P, frame.search_input, TodasLasCategorias,
                                            frame.status_filter)]

\* SupplierFrame.__init__
NewSupplierFrame(P) ==
    load_categories([current_supplier_id |-> NoSelection, supplier_categories |-> {},
                     rows |-> load_suppliers(P), search_input |-> <<>>,
                     category_filter |-> TodasLasCategorias, status_filter |-> "Todos"], P)

\* The user changes the search text, the category filter or the status filter.
FilterSuppliers(search_text, category_filter, status_filter) ==
    /\ category_filter \in {TodasLasCategorias} \cup supplier_frame.supplier_categories
    /\ supplier_frame' =
          [supplier_frame EXCEPT
              !.search_input = search_text,
              !.category_filter = category_filter,
              !.status_filter = status_filter,
              !.rows = filter_suppliers(Proveedores, search_text, category_filter,
                                        status_filter)]
    /\ UNCHANGED <<nvars, dbvars>>
    /\ UNCHANGED <<Clientes, sqlite_sequence, Ventas, DetalleVenta, Usuarios, Proveedores,
                   Categorias, Descuentos, Empresa, SeriesFacturacion, current_client_id,
                   current_product_id, message, config_file, raised, client_form,
                   active_timers, calls>>

\* SupplierFrame.load_supplier_details: the columns are read by index.
LoadSupplierDetails(supplier_id) ==
    /\ supplier_frame' =
          [supplier_frame EXCEPT
              !.current_supplier_id = IF supplier_id \in DOMAIN Proveedores
                                      THEN supplier_id ELSE @]
    /\ UNCHANGED <<nvars, dbvars>>
    /\ UNCHANGED <<Clientes, sqlite_sequence, Ventas, DetalleVenta, Usuarios, Proveedores,
                   Categorias, Descuentos, Empresa, SeriesFacturacion, current_client_id,
                   current_product_id, message, config_file, raised, client_form,
                   active_timers, calls>>

SupplierRow(f) ==
    [nombre |-> Strip(f.nombre), contacto |-> Strip(f.contacto), email |-> Strip(f.email),
     categoria |-> f.categoria, estado |-> f.estado]

\* SupplierFrame.save_supplier: UPDATE the selected row or INSERT a new one,
\* then reset_form, load_suppliers and load_categories.
save_supplier(P, frame, f) ==
    LET current == frame.current_supplier_id
        after == IF current # NoSelection
                 THEN [P EXCEPT ![current] = SupplierRow(f)]
                 ELSE Append(P, SupplierRow(f))
    IN IF Strip(f.nombre) = <<>>
       THEN [Proveedores |-> P, frame |-> frame,
             message |-> Box("error", "Error de Validacion",
                             "El nombre de la empresa es obligatorio")]
       ELSE [Proveedores |-> after,
             frame |-> load_categories([frame EXCEPT !.current_supplier_id = NoSelection,
                                                     !.rows = load_suppliers(after)], after),
             message |-> IF current # NoSelection
                         THEN Box("success", "Proveedor Actualizado",
                                  "Proveedor actualizado correctamente")
                         ELSE Box("success", "Proveedor Registrado",
                                  "Proveedor registrado correctamente")]

SaveSupplier(f) ==
    LET r == save_supplier(Proveedores, supplier_frame, f)
    IN /\ f.categoria \in {SqlNull} \cup supplier_frame.supplier_categories
       /\ Len(r.Proveedores) <= MaxSuppliers
       /\ Proveedores' = r.Proveedores
       /\ supplier_frame' = r.frame
       /\ message' = r.message
       /\ UNCHANGED <<nvars, dbvars>>
       /\ UNCHANGED <<Clientes, sqlite_sequence, Ventas, DetalleVenta, Usuarios,
                      Categorias, Descuentos, Empresa, SeriesFacturacion, current_client_id,
                      current_product_id, config_file, raised, client_form,
                      active_timers, calls>>

\* SupplierFrame.manage_categories; ok is the dialog's OK button. A category
\* no supplier has is created by giving it to the first supplier.
manage_categories(P, frame, nueva_categoria, ok) ==
    LET existe == \E id \in DOMAIN P : P[id].categoria = Strip(nueva_categoria)
        after == IF ~existe /\ P # <<>>
                 THEN [P EXCEPT ![1].categoria = Strip(nueva_categoria)]
                 ELSE P
    IN IF ok /\ Strip(nueva_categoria) # <<>>
       THEN [Proveedores |-> after, frame |-> load_categories(frame, after),
             message |-> Box("success", "Categoria Agregada",
                             "Categoria agregada correctamente")]
       ELSE [Proveedores |-> P, frame |-> frame, message |-> message]

ManageCategories(nueva_categoria, ok) ==
    LET r == manage_categories(Proveedores, supplier_frame, nueva_categoria, ok)
    IN /\ Proveedores' = r.Proveedores
       /\ supplier_frame' = r.frame
       /\ message' = r.message
       /\ UNCHANGED <<nvars, dbvars>>
       /\ UNCHANGED <<Clientes, sqlite_sequence, Ventas, DetalleVenta, Usuarios,
                      Categorias, Descuentos, Empresa, SeriesFacturacion, current_client_id,
                      current_product_id, config_file, raised, client_form,
                      active_timers, calls>>

\* Names typed into the form, and the search texts tried on the list.
SupplierNames == {<<>>, <<"A">>, <<"a", "b">>}
SearchTexts == {<<>>, <<" ", "A", " ">>, <<"j">>}
NewCategories == {<<>>, <<" ">>, <<" ", "S">>, <<"T", "e", "c">>}

SupplierForms ==
    [nombre : SupplierNames, contacto : {<<>>}, email : {<<>>},
     categoria : {SqlNull, <<"T", "e", "c">>, <<"S">>}, estado : {"Activo", "Suspendido"}]

\* ---------------------------------------------------------------- the application as started
\* The timers, the callers and the frames once the main window is built.
UiInit ==
    /\ active_timers = {"stock_check_timer"}
    /\ calls = [p \in Callers |-> IdleCall]
    /\ supplier_frame = NewSupplierFrame(Proveedores)

\* The seeded tables other than Configuracion and Productos with the sales
\* recorded since, the frames as constructed, and notification_config.json.
AppInitOf(sales, files) ==
    /\ Clientes = SeedClientes
    /\ sqlite_sequence = Cardinality(SeedClientes)
    /\ \E s \in sales : Ventas = s.Ventas /\ DetalleVenta = s.DetalleVenta
    /\ Usuarios = SeedRows.Usuarios
    /\ Proveedores = SeedRows.Proveedores
    /\ Categorias = SeedRows.Categorias
    /\ Descuentos = SeedRows.Descuentos
    /\ Empresa = SeedRows.Empresa
    /\ SeriesFacturacion = SeedRows.SeriesFacturacion
    /\ current_client_id = NoSelection
    /\ current_product_id = NoSelection
    /\ message = NoMessage
    /\ config_file \in files
    /\ raised = FALSE
    /\ client_form = EmptyForm
    /\ UiInit

\* No sale recorded yet and no notification_config.json.
AppSeed == AppInitOf({NoSales}, {AbsentFile})

\* ---------------------------------------------------------------- NotificationWidget
\* The widget's QTimer.singleShot(duration, self.close) fires, displayed or
\* not: closeEvent runs the close callback again for a widget closed before.
Countdown(w) ==
    /\ w \in countdowns
    /\ SetMgr(on_widget_closed([Mgr EXCEPT !.countdowns = @ \ {w}], w))
    /\ UNCHANGED <<first_id, config, now, center_open, notif_list>>
    /\ UNCHANGED <<dbvars, appvars>>

\* What the widget's action_callback does when the widget is clicked.
Callbacks == {"None", "returns", "raises"}

\* The test notification's callback: QMessageBox.information(self, "Prueba", ...).
Clicked == Box("information", "Prueba", "Notificacion clickeada")

mousePressEvent_unguarded(m, w, callback) ==
    IF callback = "raises"
    THEN [m |-> m, raised |-> TRUE]
    ELSE [m |-> on_widget_closed(m, w), raised |-> FALSE]

\* mousePressEvent: the callback runs inside try/except Exception: pass, then
\* self.close() whatever the callback did.
mousePressEvent(m, w, callback) ==
    [m |-> on_widget_closed(m, w), raised |-> FALSE]

Click(w, callback) ==
    /\ w \in Range(notification_widgets)
    /\ LET r == mousePressEvent(Mgr, w, callback)
       IN /\ SetMgr(r.m)
          /\ raised' = r.raised
    /\ message' = IF callback = "returns" THEN Clicked ELSE message
    /\ UNCHANGED <<first_id, config, now, center_open, notif_list>>
    /\ UNCHANGED <<dbvars, Clientes, sqlite_sequence, Ventas, DetalleVenta, Usuarios,
                   Proveedores, Categorias, Descuentos, Empresa, SeriesFacturacion,
                   current_client_id, current_product_id, config_file,
                   client_form, uivars>>

\* The delivery machinery: submissions, timers and dismissals.
Next ==
    \/ Submit(MaxSubmit)
    \/ PollTimer
    \/ AnimTimer
    \/ \E w \in Range(notification_widgets) : Dismiss(w)

Init == NInit /\ DBSeed /\ AppSeed

Spec == Init /\ [][Next]_vars

\* The history and the notification center, with the delivery machinery
\* (below max_notifications submissions the 500 ms retry is never armed).
NextHist ==
    \/ Submit(MaxHistSubmit)
    \/ AnimTimer
    \/ \E w \in Range(notification_widgets) : Dismiss(w)
    \/ Tick
    \/ AutoClean
    \/ OpenCenter
    \/ CloseCenter
    \/ MarkAllRead
    \/ \E row \in 0..MaxClickRow : HistoryClick(row)
    \/ ClearHistory

SpecHist == Init /\ [][NextHist]_vars

\* The emitters and the alert settings, with the delivery machinery
\* (below max_notifications submissions the 500 ms retry is never armed).
NextEmit ==
    \/ CheckStock
    \/ NotifyLogin
    \/ NotifySaleSuccess
    \/ NotifySaleCancelled
    \/ NotifySystemInfo
    \/ NotifyBackupCompleted
    \/ NotifyError
    \/ OpenCenter
    \/ \E boxes \in {b \in AlertSettings : b.position = config.position} : SaveConfig(boxes)
    \/ AnimTimer
    \/ \E w \in Range(notification_widgets) : Dismiss(w)

\* A catalogue with one product under the absolute floor, one above its
\* reorder threshold and one at or below its reorder threshold.
Catalogue ==
    <<[stock |-> 8, stock_minimo |-> 2],
      [stock |-> 12, stock_minimo |-> 3],
      [stock |-> 12, stock_minimo |-> 15]>>

DBCatalogue ==
    /\ Configuracion = SeedConfiguracion
    /\ Productos = Catalogue
    /\ MovimientosInventario = <<>>
    /\ ret = NoCall

InitEmit == NInitOf({0}, {DefaultConfig}) /\ DBCatalogue /\ AppSeed

SpecEmit == InitEmit /\ [][NextEmit]_vars

\* The settings accessors of the gateway.
NextConfig ==
    \/ \E clave \in Keys, valor \in Vals : SetConfig(clave, valor)
    \/ \E clave \in Keys, default \in Defaults : GetConfig(clave, default)
    \/ DbTick

InitConfig == NInitOf({0}, {DefaultConfig}) /\ DBSeed /\ AppSeed

SpecConfig == InitConfig /\ [][NextConfig]_vars

\* Inventory movements, one call after another.
NextInv ==
    \E producto_id \in 1..NProducts, tipo \in Tipos, cantidad \in Cantidades :
        Movimiento(producto_id, tipo, cantidad)

InitInv ==
    NInitOf({0}, {DefaultConfig}) /\ DBInitOf(ProductRows(InitStocks, {2})) /\ AppSeed

SpecInv == InitInv /\ [][NextInv]_vars

\* Timers fire and widgets close (countdown expiry) as long as the event loop runs.
LiveSpec ==
    /\ Init /\ [][Next]_vars
    /\ WF_vars(PollTimer)
    /\ WF_vars(AnimTimer)
    /\ WF_vars(\E w \in Range(notification_widgets) : Dismiss(w))

\* ---------------------------------------------------------------- properties
SubmitStep == next_id' = next_id + 1

\* C1: at most max_notifications widgets are displayed in every reachable
\* state; while max_notifications widgets are displayed no step displays a
\* further widget, and a notification submitted then stays in the queue.
C1_DisplayCap ==
    /\ [](Len(notification_widgets) <= max_notifications)
    /\ [][Len(notification_widgets) = max_notifications =>
            /\ Range(notification_widgets') \subseteq Range(notification_widgets)
            /\ (SubmitStep => next_id \in Range(notification_queue')
                                 /\ next_id \notin Range(shown'))]_vars

C1_Witness ==
    /\ Len(notification_widgets) = max_notifications
    /\ notification_queue # <<>>

\* C2 (as stated): a notification submitted while fewer than max_notifications
\* widgets are displayed is among the displayed widgets when the call returns.
C2_Original ==
    [][(SubmitStep /\ Len(notification_widgets) < max_notifications)
          => next_id \in Range(notification_widgets')]_vars

\* C2 (amended): a notification submitted while fewer than max_notifications
\* widgets are displayed is displayed by the call exactly when no animation
\* is in progress and the delivery queue is empty; otherwise it is only queued.
C2_Amended ==
    [][(SubmitStep /\ Len(notification_widgets) < max_notifications)
          => /\ (next_id \in Range(notification_widgets'))
                    <=> (~is_animating /\ notification_queue = <<>>)
             /\ (next_id \in Range(notification_widgets'))
                    \/ (next_id \in Range(notification_queue'))]_vars

C2_Witness ==
    /\ Len(shown) >= 2
    /\ shown[Len(shown)] = next_id - 1
    /\ next_id - 1 \in Range(notification_widgets)
    /\ notification_queue = <<>>

\* C3: notifications are displayed in the order of their submission: the
\* k-th notification displayed is the k-th notification submitted.
C3_Fifo == \A i \in 1..Len(shown) : shown[i] = first_id + i - 1

C3_Witness ==
    /\ Len(shown) > max_notifications
    /\ Len(notification_widgets) < Len(shown)

\* C4: a queued notification never waits without a pending timer, and under
\* fair timers and dismissals every queued notification is eventually displayed.
C4_EventuallyDisplayed ==
    /\ [](notification_queue # <<>> => poll_timers + anim_timers > 0)
    /\ \A k \in 0..(MaxSubmit - 1) :
          (first_id + k \in Range(notification_queue)) ~> (first_id + k \in Range(shown))

C4_Witness ==
    /\ Len(shown) > max_notifications
    /\ notification_queue = <<>>
    /\ poll_timers = 0
    /\ anim_timers = 0

\* C5: the history never holds more than 200 entries; a submission puts the
\* new entry at index 0 and, at a full history, evicts exactly the oldest one.
C5_HistoryCap ==
    /\ [](Len(notification_history) <= HistoryCap)
    /\ [][SubmitStep =>
            /\ notification_history'[1].id = next_id
            /\ Ids(notification_history') =
                  <<next_id>> \o (IF Len(notification_history) = HistoryCap
                                  THEN SubSeq(Ids(notification_history), 1, HistoryCap - 1)
                                  ELSE Ids(notification_history))]_vars

C5_Witness ==
    /\ Len(notification_history) = HistoryCap
    /\ notification_history[1].id = first_id + 1
    /\ notification_history[HistoryCap].id = 2

\* C6: a history entry is unread at submission; its read flag becomes true
\* only by opening the center, mark-all-as-read or a click in the history
\* list; a dismissal changes neither the history nor any read flag.
ReadIds(h, flag) == {h[i].id : i \in {j \in 1..Len(h) : h[j].read = flag}}

BecameRead ==
    /\ notification_history' # notification_history
    /\ ReadIds(notification_history, FALSE) \cap ReadIds(notification_history', TRUE) # {}

Dismissal == Len(notification_widgets') < Len(notification_widgets)

C6_ReadFlag ==
    [][/\ SubmitStep => ~notification_history'[1].read
       /\ BecameRead => (OpenCenter \/ MarkAllRead \/ \E row \in 0..MaxClickRow : HistoryClick(row))
       /\ Dismissal => notification_history' = notification_history]_vars

C6_Witness ==
    \E i \in 1..Len(notification_history) :
        /\ notification_history[i].id \in Range(shown)
        /\ notification_history[i].id \notin Range(notification_widgets)
        /\ ~notification_history[i].read
        /\ get_unread_count(notification_history) > 0

\* C7 (as stated): every emitter of the list is gated by a user-configurable
\* boolean, so with every alert boolean off an emitter call submits nothing.
ListedEmitterStep ==
    \/ CheckStock
    \/ NotifyLogin
    \/ NotifySaleSuccess
    \/ NotifySaleCancelled
    \/ NotifyBackupCompleted
    \/ NotifyError

AllAlertsOff ==
    /\ ~config.stock_alerts
    /\ ~config.sales_alerts
    /\ ~config.login_alerts
    /\ ~config.system_alerts

NothingSubmitted ==
    UNCHANGED <<notification_history, notification_queue, notification_widgets, next_id>>

C7_Original == [][(ListedEmitterStep /\ AllAlertsOff) => NothingSubmitted]_vars

\* C7 (amended): the stock check, login, sale-completed and sale-cancelled
\* emitters submit nothing when their boolean is off and exactly one
\* notification per event (one per matching product) when it is on; the
\* backup-completed and generic-error emitters have no boolean and always
\* submit exactly one notification.
Delivered(id) == id \in Range(notification_queue') \cup Range(notification_widgets')

OneSubmitted(title) ==
    /\ next_id' = next_id + 1
    /\ Len(notification_history') = Len(notification_history) + 1
    /\ notification_history'[1].id = next_id
    /\ notification_history'[1].title = title
    /\ Tail(notification_history') = notification_history
    /\ Delivered(next_id)

OnePerLowStockProduct ==
    LET low == {i \in DOMAIN Productos :
                   \/ Productos[i].stock <= StockFloor
                   \/ (Productos[i].stock <= Productos[i].stock_minimo
                          /\ Productos[i].stock_minimo > 0)}
        n == Cardinality(low)
    IN /\ next_id' = next_id + n
       /\ Len(notification_history') = Len(notification_history) + n
       /\ SubSeq(notification_history', n + 1, Len(notification_history')) = notification_history
       /\ {notification_history'[i].action_data : i \in 1..n} = low
       /\ \A i \in 1..n : /\ notification_history'[i].title = "Stock Critico"
                          /\ Delivered(notification_history'[i].id)

Gated(flag, effect) == IF flag THEN effect ELSE NothingSubmitted

C7_Amended ==
    [][/\ CheckStock => Gated(config.stock_alerts, OnePerLowStockProduct)
       /\ NotifyLogin => Gated(config.login_alerts, OneSubmitted("Sesion Iniciada"))
       /\ NotifySaleSuccess => Gated(config.sales_alerts, OneSubmitted("Venta Exitosa"))
       /\ NotifySaleCancelled => Gated(config.sales_alerts, OneSubmitted("Venta Cancelada"))
       /\ NotifyBackupCompleted => OneSubmitted("Backup Completado")
       /\ NotifyError => OneSubmitted("Error")]_vars

C7_Witness ==
    /\ AllAlertsOff
    /\ Len(notification_history) = 2
    /\ notification_history[1].title = "Stock Critico"
    /\ notification_history[2].title = "Stock Critico"
    /\ notification_history[1].action_data # notification_history[2].action_data

\* C8: set_config(k, v) followed by get_config(k) returns v, whether or not
\* k had a row; after set_config, and after repeating it, there is exactly
\* one row for k and it holds v.
RowsOf(T, clave) == {r \in T : r.clave = clave}

C8_SetGetRoundTrip ==
    [][/\ \A k \in Keys, v \in Vals :
            SetConfig(k, v) =>
                /\ Cardinality(RowsOf(Configuracion', k)) = 1
                /\ \A r \in RowsOf(Configuracion', k) : r.valor = v
       /\ (ret.op = "set_config" /\ ret'.op = "get_config" /\ ret'.clave = ret.clave)
             => ret'.value = ret.value
       /\ (ret.op = "set_config" /\ SetConfig(ret.clave, ret.value))
             => /\ Cardinality(RowsOf(Configuracion', ret.clave)) = 1
                /\ \A r \in RowsOf(Configuracion', ret.clave) : r.valor = ret.value]_vars

C8_Witness ==
    /\ ret.op = "get_config"
    /\ ret.clave = "tema"
    /\ ret.value = "USD"
    /\ Cardinality(RowsOf(Configuracion, "tema")) = 1

\* C9: get_config(k, default) returns default for a key without a row and
\* creates no row for it.
C9_GetDefault ==
    [][\A k \in Keys, d \in Defaults :
          (GetConfig(k, d) /\ RowsOf(Configuracion, k) = {})
             => /\ ret'.value = d
                /\ Configuracion' = Configuracion
                /\ RowsOf(Configuracion', k) = {}]_vars

C9_Witness ==
    /\ ret.op = "get_config"
    /\ ret.clave = "tema"
    /\ ret.value = "claro"
    /\ RowsOf(Configuracion, "tema") = {}

\* C10: a movement of kind entrada sets the stock to s+q, salida to s-q
\* (below zero when q > s) and ajuste to q; it appends exactly one audit row
\* with stock_anterior = s and stock_nuevo = the new stock, and returns the
\* new stock; each audit row starts from the stock the previous movement of
\* that product left.
Expected(s, tipo, q) ==
    CASE tipo = "entrada" -> s + q
      [] tipo = "salida" -> s - q
      [] tipo = "ajuste" -> q

MovementStep ==
    \/ MovimientosInventario' # MovimientosInventario
    \/ Productos' # Productos

Chained(M) ==
    \A i, j \in 1..Len(M) :
        (/\ i < j
         /\ M[i].producto_id = M[j].producto_id
         /\ \A k \in (i + 1)..(j - 1) : M[k].producto_id # M[i].producto_id)
            => M[j].stock_anterior = M[i].stock_nuevo

C10_Movimiento ==
    /\ [][MovementStep =>
            LET r == MovimientosInventario'[Len(MovimientosInventario')]
                s == Productos[r.producto_id].stock
            IN /\ MovimientosInventario' = Append(MovimientosInventario, r)
               /\ r.stock_anterior = s
               /\ r.stock_nuevo = Expected(s, r.tipo_movimiento, r.cantidad)
               /\ Productos' = [Productos EXCEPT ![r.producto_id].stock = r.stock_nuevo]
               /\ ret'.op = "registrar_movimiento_inventario"
               /\ ret'.num = r.stock_nuevo]_vars
    /\ [](Chained(MovimientosInventario))

C10_Witness ==
    \E i, j \in 1..Len(MovimientosInventario) :
        /\ i < j
        /\ MovimientosInventario[i].producto_id = MovimientosInventario[j].producto_id
        /\ MovimientosInventario[j].tipo_movimiento = "salida"
        /\ MovimientosInventario[j].cantidad > MovimientosInventario[j].stock_anterior
        /\ MovimientosInventario[j].stock_nuevo < 0
        /\ Productos[MovimientosInventario[j].producto_id].stock < 0

\* The product form next to inventory movements of the first product.
NextProd ==
    \/ \E tipo \in Tipos : Movimiento(1, tipo, 3)
    \/ \E product_id \in 1..MaxProducts : LoadProductDetails(product_id)
    \/ \E f \in ProductForms : SaveProduct(f)

InitProd == NInitOf({0}, {DefaultConfig}) /\ DBSeed /\ AppSeed

SpecProd == InitProd /\ [][NextProd]_vars

\* C11: a product's stock changes only in a step that appends an audit row
\* for that product whose stock_nuevo is the new stock, and the stock of every
\* product with at least one audit row equals the stock_nuevo of its latest
\* audit row.
MovsOf(M, p) == {i \in 1..Len(M) : M[i].producto_id = p}

LatestMov(M, p) == M[CHOOSE i \in MovsOf(M, p) : \A j \in MovsOf(M, p) : j <= i]

StockChangeAudited ==
    \A p \in DOMAIN Productos \cap DOMAIN Productos' :
        Productos'[p].stock # Productos[p].stock
            => /\ Len(MovimientosInventario') = Len(MovimientosInventario) + 1
               /\ LatestMov(MovimientosInventario', p).stock_nuevo = Productos'[p].stock
               /\ MovimientosInventario'[Len(MovimientosInventario')].producto_id = p

C11_StockAudit ==
    /\ [][StockChangeAudited]_vars
    /\ [](\A p \in DOMAIN Productos :
            MovsOf(MovimientosInventario, p) # {}
                => Productos[p].stock = LatestMov(MovimientosInventario, p).stock_nuevo)

\* The gateway under driver errors: client saves and list reloads.
NextGateway ==
    \/ \E f \in ClientForms, fault \in Outcomes : SaveClient(f, fault)
    \/ \E failed \in BOOLEAN : FetchClientes(failed)

InitGateway == NInitOf({0}, {DefaultConfig}) /\ DBSeed /\ AppInitOf(SalesRows, {AbsentFile})

SpecGateway == InitGateway /\ [][NextGateway]_vars

\* C12: on a driver error fetch returns the empty list and execute returns
\* None, no exception reaches the caller, and the tables are the same after
\* the failed call as before it.
C12_GatewayErrors ==
    [][/\ \A f \in ClientForms, fault \in Outcomes :
            (SaveClient(f, fault) /\ fault # "ok")
                => /\ ret'.op = "execute"
                   /\ ret'.num = 0
                   /\ ~raised'
                   /\ Clientes' = Clientes
       /\ FetchClientes(TRUE)
            => /\ ret'.rows = {}
               /\ ~raised'
               /\ Clientes' = Clientes]_vars

\* The clients frame: saves, selections and deletions, the driver at rest.
ClientIds == 1..(Cardinality(SeedClientes) + MaxSaves)

NextClients ==
    \/ \E f \in ClientForms : SaveClient(f, "ok")
    \/ \E client_id \in ClientIds : LoadClientDetails(client_id)
    \/ \E reply, reply2 \in Replies : DeleteClient(reply, reply2)

InitClients == NInitOf({0}, {DefaultConfig}) /\ DBSeed /\ AppInitOf(SalesRows, {AbsentFile})

SpecClients == InitClients /\ [][NextClients]_vars

\* show_error("Error", "El DNI ya está registrado para otro cliente")
DuplicateDni ==
    [kind |-> "error", title |-> "Error",
     text |-> "El DNI ya esta registrado para otro cliente"]

\* C14: saving a client whose non-empty ID number is already stored shows the
\* duplicate-ID error box, inserts no row and leaves the existing rows as
\* they were.
C14_DuplicateDni ==
    [][\A f \in ClientForms :
          (/\ SaveClient(f, "ok")
           /\ Strip(f.dni) # <<>>
           /\ \E r \in Clientes : r.dni = Strip(f.dni))
             => /\ message' = DuplicateDni
                /\ Clientes' = Clientes]_vars

\* C15: saving a valid client with an empty ID number inserts exactly one row,
\* with a NULL ID number, whatever number of such rows is already stored.
NullDni(C) == {r \in C : r.dni = SqlNull}

C15_EmptyDni ==
    [][\A f \in ClientForms :
          (/\ SaveClient(f, "ok")
           /\ client_validate_form(f) = NoMessage
           /\ Strip(f.dni) = <<>>)
             => /\ Cardinality(Clientes') = Cardinality(Clientes) + 1
                /\ Clientes \subseteq Clientes'
                /\ Cardinality(NullDni(Clientes')) = Cardinality(NullDni(Clientes)) + 1]_vars

C15_Witness ==
    /\ Cardinality(NullDni(Clientes)) = MaxSaves
    /\ message.title = "Cliente Registrado"

\* One save of the client form, over every text of the bounded alphabets.
FirstSave ==
    /\ message = NoMessage
    /\ \E f \in AllClientForms : SaveClient(f, "ok")

NextValid == FirstSave

InitValid == NInitOf({0}, {DefaultConfig}) /\ DBSeed /\ AppSeed

SpecValid == InitValid /\ [][NextValid]_vars

\* C16: a save is rejected, and writes nothing, exactly when a name is empty,
\* or the e-mail text is non-empty and not local@domain.tld with a single '@',
\* or the ID text is non-empty and not 13 decimal digits; a rejected save
\* leaves the form as typed, an accepted one hands the trimmed texts to the
\* gateway.
Ats(s) == {i \in 1..Len(s) : s[i] = "@"}

WellFormedEmail(s) ==
    /\ Cardinality(Ats(s)) = 1
    /\ LET at == CHOOSE i \in Ats(s) : TRUE
       IN /\ at > 1
          /\ \E dot \in (at + 2)..(Len(s) - 1) : s[dot] = "."

WellFormedDni(s) == Len(s) = 13 /\ Range(s) \subseteq Digits

WellFormed(nombre, apellido, dni, email) ==
    /\ nombre # "" /\ apellido # ""
    /\ email = <<>> \/ WellFormedEmail(email)
    /\ dni = <<>> \/ WellFormedDni(dni)

Text(v) == IF v = SqlNull THEN <<>> ELSE v

C16_Validation ==
    /\ message.kind = "error"
         => /\ ~WellFormed(client_form.nombre, client_form.apellido,
                           Strip(client_form.dni), Strip(client_form.email))
            /\ Clientes = SeedClientes
            /\ sqlite_sequence = Cardinality(SeedClientes)
            /\ ret = NoCall
    /\ message.kind = "success"
         => /\ ret.op = "execute"
            /\ WellFormed(ret.params[1], ret.params[2], Text(ret.params[3]),
                          Text(ret.params[4]))
            /\ client_form = EmptyForm

C16_Witness ==
    /\ message = Box("error", "Error de Validacion", "Formato de email invalido")
    /\ Cardinality(Ats(client_form.email)) = 2
    /\ Clientes = SeedClientes

\* The user has picked client c: the last call was load_client_details(c) on
\* a stored client.
Selected(c) ==
    /\ ret.op = "load_client_details"
    /\ ret.num = c
    /\ \E r \in Clientes : r.id = c

\* C17: deleting a selected client that has sales and answering Yes to the
\* deactivation question sets that client's activo to 0 and changes no other
\* row of Clientes, Ventas or DetalleVenta.
C17_Deactivate ==
    [][\A c \in ClientIds, reply2 \in Replies :
          (/\ Selected(c)
           /\ SalesOf(Ventas, c) # {}
           /\ DeleteClient("Yes", reply2))
             => /\ Clientes' = {IF r.id = c THEN [r EXCEPT !.activo = 0] ELSE r
                                  : r \in Clientes}
                /\ \E r \in Clientes' : r.id = c /\ r.activo = 0
                /\ Ventas' = Ventas
                /\ DetalleVenta' = DetalleVenta]_vars

\* C18: a selected client that has sales is removed, with its sales and
\* their lines and nothing else, when the deactivation question is answered
\* No and the cascade question Yes; when the cascade question is answered No
\* no row changes; and no client with sales is removed in any other way.
OrphanFree(C, V, D) ==
    /\ \A v \in V : \E r \in C : r.id = v.id_cliente
    /\ \A d \in D : \E v \in V : v.id = d.venta_id

C18_Cascade ==
    [][/\ \A c \in ClientIds :
            (Selected(c) /\ SalesOf(Ventas, c) # {})
              => /\ DeleteClient("No", "Yes")
                    => /\ Clientes' = {r \in Clientes : r.id # c}
                       /\ Ventas' = Ventas \ SalesOf(Ventas, c)
                       /\ DetalleVenta' =
                            {d \in DetalleVenta :
                                d.venta_id \notin {v.id : v \in SalesOf(Ventas, c)}}
                       /\ OrphanFree(Clientes', Ventas', DetalleVenta')
                 /\ DeleteClient("No", "No")
                    => UNCHANGED <<Clientes, Ventas, DetalleVenta>>
       /\ (\E r \in Clientes \ Clientes' :
              SalesOf(Ventas, r.id) # {} /\ \A q \in Clientes' : q.id # r.id)
            => DeleteClient("No", "Yes")]_vars

\* C19: deleting a selected client that has no sales and answering Yes to
\* the single question removes that client's row and nothing else; answering
\* No changes no row.
C19_DirectDelete ==
    [][\A c \in ClientIds, reply2 \in Replies :
          (Selected(c) /\ SalesOf(Ventas, c) = {})
            => /\ DeleteClient("Yes", reply2)
                  => /\ Clientes' = {r \in Clientes : r.id # c}
                     /\ UNCHANGED <<Ventas, DetalleVenta>>
               /\ DeleteClient("No", reply2)
                  => UNCHANGED <<Clientes, Ventas, DetalleVenta>>]_vars

\* Application starts over a database file that the discount editor and the
\* settings accessors change in between.
NextSeed ==
    \/ InsertInitialData
    \/ /\ ret # NoCall
       /\ \E nombre \in {"", "Promo"}, row \in 0..1 : SaveDiscount(nombre, row)
    \/ /\ ret # NoCall
       /\ \E current_row \in 0..MaxDescuentos, reply \in Replies :
             DeleteDiscount(current_row, reply)
    \/ /\ ret # NoCall
       /\ \E clave \in Keys, valor \in Vals : SetConfig(clave, valor)

\* A new database file after create_tables: every table empty.
InitSeed ==
    /\ NInitOf({0}, {DefaultConfig})
    /\ Configuracion = {}
    /\ Productos = <<>>
    /\ MovimientosInventario = <<>>
    /\ ret = NoCall
    /\ Clientes = {}
    /\ sqlite_sequence = 0
    /\ Ventas = {}
    /\ DetalleVenta = {}
    /\ Usuarios = <<>>
    /\ Proveedores = <<>>
    /\ Categorias = <<>>
    /\ Descuentos = <<>>
    /\ Empresa = <<>>
    /\ SeriesFacturacion = <<>>
    /\ current_client_id = NoSelection
    /\ current_product_id = NoSelection
    /\ message = NoMessage
    /\ config_file = AbsentFile
    /\ raised = FALSE
    /\ client_form = EmptyForm
    /\ UiInit

SpecSeed == InitSeed /\ [][NextSeed]_vars

\* C13: an initialisation gives each seeded table its default rows when that
\* table is empty and leaves it as it is otherwise (a table short of default
\* rows is not completed, a full one gets no second copy); the first
\* initialisation leaves exactly the three predefined discounts.
C13_Seeding ==
    [][InsertInitialData =>
         /\ Descuentos' = IF Len(Descuentos) = 0 THEN SeedRows.Descuentos ELSE Descuentos
         /\ Usuarios' = IF Len(Usuarios) = 0 THEN SeedRows.Usuarios ELSE Usuarios
         /\ Proveedores' = IF Len(Proveedores) = 0 THEN SeedRows.Proveedores ELSE Proveedores
         /\ Categorias' = IF Len(Categorias) = 0 THEN SeedRows.Categorias ELSE Categorias
         /\ Empresa' = IF Len(Empresa) = 0 THEN SeedRows.Empresa ELSE Empresa
         /\ SeriesFacturacion' =
               IF Len(SeriesFacturacion) = 0 THEN SeedRows.SeriesFacturacion ELSE SeriesFacturacion
         /\ Productos' = IF Len(Productos) = 0 THEN SeedProductos ELSE Productos
         /\ Configuracion' =
               IF Cardinality(Configuracion) = 0 THEN SeedConfiguracion ELSE Configuracion
         /\ Clientes' = IF Cardinality(Clientes) = 0 THEN SeedClientes ELSE Clientes
         /\ ~raised'
         /\ ret = NoCall
              => Descuentos' = <<"Docena 10%", "Mayorista 15%", "Cliente Frecuente 5%">>]_vars

C13_Witness ==
    /\ ret.op = "insert_initial_data"
    /\ Descuentos = <<"Docena 10%", "Cliente Frecuente 5%">>

\* The notification manager constructed over whatever file is on disk.
NextLoad == LoadConfig

InitLoad == NInitOf({0}, {DefaultConfig}) /\ DBSeed /\ AppInitOf({NoSales}, Files)

SpecLoad == InitLoad /\ [][NextLoad]_vars

\* C20: loading raises nothing; when the file holds a JSON object every key
\* of the object has the object's value and every other default keeps its
\* default value; when the file is missing, cannot be opened or does not hold
\* a JSON object the configuration is exactly the defaults.
C20_LoadConfig ==
    [][LoadConfig =>
         /\ ~raised'
         /\ config_file.kind = "object"
              => /\ DOMAIN config' = DOMAIN DefaultConfig \cup DOMAIN config_file.members
                 /\ \A k \in DOMAIN config_file.members : config'[k] = JsonValue(config_file.members[k])
                 /\ \A k \in DOMAIN DefaultConfig \ DOMAIN config_file.members :
                       config'[k] = DefaultConfig[k]
         /\ config_file.kind # "object" => config' = DefaultConfig]_vars

\* The running application left alone: the clock advances, started timers
\* time out, notifications are submitted, displayed and dismissed.
NextClean ==
    \/ \E timer \in Timers : Timeout(timer)
    \/ Submit(MaxHistSubmit)
    \/ AnimTimer
    \/ \E w \in Range(notification_widgets) : Dismiss(w)
    \/ Tick

InitClean == NInitOf({0}, LoadedConfigs) /\ DBSeed /\ AppSeed

\* The event loop keeps running: the clock advances and every started timer
\* keeps timing out.
LiveClean ==
    /\ InitClean /\ [][NextClean]_vars
    /\ WF_vars(Tick)
    /\ WF_vars(AnimTimer)
    /\ \A timer \in Timers : WF_vars(Timeout(timer))

Older(notif) == notif.timestamp < now - config.auto_clear_days

OldInHistory(id) ==
    \E i \in 1..Len(notification_history) :
        notification_history[i].id = id /\ Older(notification_history[i])

NextRace ==
    \/ \E p \in Callers, producto_id \in {1, NProducts}, tipo \in Tipos, cantidad \in Cantidades :
          ReadStock(p, producto_id, tipo, cantidad)
    \/ \E p \in Callers : UpdateStock(p)
    \/ \E p \in Callers : InsertMovimiento(p)

InitRace == NInitOf({0}, {DefaultConfig}) /\ DBSeed /\ AppSeed

SpecRace == InitRace /\ [][NextRace]_vars

Written(p) == calls[p].pc \in {"insert", "returned"}

\* Both callers read the same stock of the same product, so neither read the
\* other's write, and both have written.
BothReadFirst(p, q) ==
    /\ p # q
    /\ Written(p) /\ Written(q)
    /\ calls[p].producto_id = calls[q].producto_id
    /\ calls[p].stock_actual = calls[q].stock_actual

HasRow(call) ==
    \E i \in 1..Len(MovimientosInventario) :
        MovimientosInventario[i] = MovRow(call.producto_id, call.tipo, call.cantidad,
                                          call.stock_actual, call.nuevo_stock)

\* C22: a movement writes the stock computed from the stock it read, whatever
\* was written since; so when two movements of one product both read before
\* either wrote, the stock is what one of them alone makes of the stock read
\* (the other update is lost), and both audit rows are appended all the same.
C22_LostUpdate ==
    /\ [][\A p \in Callers :
            (calls[p].pc = "update" /\ calls'[p].pc = "insert") =>
                Productos'[calls[p].producto_id].stock
                    = Expected(calls[p].stock_actual, calls[p].tipo, calls[p].cantidad)]_vars
    /\ [](\A p, q \in Callers :
            BothReadFirst(p, q) =>
                /\ Productos[calls[p].producto_id].stock
                      \in {Expected(calls[p].stock_actual, calls[p].tipo, calls[p].cantidad),
                           Expected(calls[q].stock_actual, calls[q].tipo, calls[q].cantidad)}
                /\ calls[p].pc = "returned" => HasRow(calls[p]))

\* Two receipts of 3 and 7 units raced: both audit rows are there, and the
\* stock shows only one receipt.
C22_Witness ==
    /\ BothReadFirst(1, 2)
    /\ calls[1].pc = "returned" /\ calls[2].pc = "returned"
    /\ calls[1].tipo = "entrada" /\ calls[2].tipo = "entrada"
    /\ calls[1].cantidad = 3 /\ calls[2].cantidad = 7
    /\ HasRow(calls[1]) /\ HasRow(calls[2])
    /\ Len(MovimientosInventario) = 2
    /\ Productos[calls[1].producto_id].stock # calls[1].stock_actual + 3 + 7
    /\ ~Chained(MovimientosInventario)

\* C23: load_client_details(c) on a stored client makes c the selection; a
\* valid save with a selection updates exactly that row and inserts none; a
\* valid save without a selection (and without another client's ID number)
\* inserts exactly one row; a save or a delete that got past its first check
\* leaves no selection.
C23_Upsert ==
    [][/\ \A c \in ClientIds :
            (LoadClientDetails(c) /\ \E r \in Clientes : r.id = c) => current_client_id' = c
       /\ \A f \in ClientForms :
            (/\ SaveClient(f, "ok")
             /\ client_validate_form(f) = NoMessage
             /\ ~UniqueViolation(Clientes, current_client_id, OrNone(f.dni)))
               => /\ current_client_id' = NoSelection
                  /\ IF current_client_id # NoSelection
                     THEN /\ {r.id : r \in Clientes'} = {r.id : r \in Clientes}
                          /\ \A r \in Clientes : r.id # current_client_id => r \in Clientes'
                     ELSE /\ Clientes \subseteq Clientes'
                          /\ Cardinality(Clientes') = Cardinality(Clientes) + 1
       /\ \A reply, reply2 \in Replies :
            (DeleteClient(reply, reply2) /\ current_client_id # NoSelection)
               => current_client_id' = NoSelection]_vars

RowOf(T, clave) == CHOOSE r \in T : r.clave = clave

\* C24: set_config(k, v) on a stored key leaves one row for k with valor v and
\* the update time of the call, keeps that row's descripcion and categoria,
\* and changes no other row.
C24_SetConfigFrame ==
    [][\A clave \in Keys, valor \in Vals :
          (SetConfig(clave, valor) /\ \E r \in Configuracion : r.clave = clave)
             => /\ Cardinality({r \in Configuracion' : r.clave = clave}) = 1
                /\ RowOf(Configuracion', clave).valor = valor
                /\ RowOf(Configuracion', clave).fecha_actualizacion = now
                /\ RowOf(Configuracion', clave).descripcion
                      = RowOf(Configuracion, clave).descripcion
                /\ RowOf(Configuracion', clave).categoria
                      = RowOf(Configuracion, clave).categoria
                /\ {r \in Configuracion' : r.clave # clave}
                      = {r \in Configuracion : r.clave # clave}]_vars

\* The delivery machinery with the position setting of the notification center.
NextPos ==
    \/ Submit(MaxSubmit)
    \/ PollTimer
    \/ AnimTimer
    \/ \E w \in Range(notification_widgets) : Dismiss(w)
    \/ OpenCenter
    \/ \E position \in Positions :
          SaveConfig([stock_alerts |-> config.stock_alerts, sales_alerts |-> config.sales_alerts,
                      login_alerts |-> config.login_alerts, system_alerts |-> config.system_alerts,
                      position |-> position])

InitPos == NInitOf({0}, {DefaultConfig}) /\ DBSeed /\ AppSeed

SpecPos == InitPos /\ [][NextPos]_vars

Outward(position) == IF position = "bottom-right" THEN 0 - 1 ELSE 1

\* C25: whenever the displayed widgets change, every displayed widget has a
\* target, the targets share the anchor's x, and each next widget in display
\* order lies WidgetHeight + 10 further from the anchor (down for the top
\* anchors, up for bottom-right), so that no two targets overlap.
C25_Stacking ==
    [][notification_widgets' # notification_widgets =>
          /\ Len(targets') = Len(notification_widgets')
          /\ \A i \in 1..(Len(targets') - 1) :
                /\ targets'[i + 1].x = targets'[i].x
                /\ targets'[i + 1].y - targets'[i].y
                      = Outward(config.position) * (WidgetHeight + 10)
          /\ \A i, j \in 1..Len(targets') :
                i # j => \/ targets'[i].y - targets'[j].y >= WidgetHeight
                         \/ targets'[j].y - targets'[i].y >= WidgetHeight]_vars

\* The supplier screen: filters, selection, save and the category dialog.
FilterCategories == {TodasLasCategorias, <<"T", "e", "c">>, <<"S">>}

NextSuppliers ==
    \/ \E search_text \in SearchTexts, category_filter \in FilterCategories,
          status_filter \in StatusFilters :
          FilterSuppliers(search_text, category_filter, status_filter)
    \/ \E supplier_id \in 1..MaxSuppliers : LoadSupplierDetails(supplier_id)
    \/ \E f \in SupplierForms : SaveSupplier(f)
    \/ \E nueva_categoria \in NewCategories, ok \in BOOLEAN :
          ManageCategories(nueva_categoria, ok)

InitSuppliers == NInitOf({0}, {DefaultConfig}) /\ DBSeed /\ AppSeed

SpecSuppliers == InitSuppliers /\ [][NextSuppliers]_vars

\* The stored status a status filter stands for.
StatusOf(status_filter) ==
    CASE status_filter = "Activos" -> "Activo"
      [] status_filter = "Inactivos" -> "Inactivo"
      [] status_filter = "Suspendidos" -> "Suspendido"

Within(text, part) ==
    \E k \in 0..(Len(text) - Len(part)) : SubSeq(Lower(text), k + 1, k + Len(part)) = Lower(part)

\* C26: the list after a change of filter holds exactly the suppliers whose
\* stored status is the one the status filter stands for, whose category is
\* the chosen one and one of whose name, contact and e-mail contains the
\* search text whatever the case, each once and in the order of their names.
C26_StatusFilter ==
    [][\A search_text \in SearchTexts, category_filter \in FilterCategories,
          status_filter \in StatusFilters :
          FilterSuppliers(search_text, category_filter, status_filter) =>
             LET rows == supplier_frame'.rows
                 Wanted ==
                    {id \in DOMAIN Proveedores :
                        /\ status_filter # "Todos" =>
                              Proveedores[id].estado = StatusOf(status_filter)
                        /\ category_filter # TodasLasCategorias =>
                              Proveedores[id].categoria = category_filter
                        /\ \/ Within(Proveedores[id].nombre, Strip(search_text))
                           \/ Within(Proveedores[id].contacto, Strip(search_text))
                           \/ Within(Proveedores[id].email, Strip(search_text))}
             IN /\ Range(rows) = Wanted
                /\ Len(rows) = Cardinality(Wanted)
                /\ \A i, j \in 1..Len(rows) :
                      i < j => ~Before(Proveedores[rows[j]].nombre,
                                       Proveedores[rows[i]].nombre)]_vars

\* C30: adding a category no supplier has leaves every supplier's category as
\* it was, and the categories on offer afterwards are the ones on offer
\* before and the new one.
C30_AddCategory ==
    [][\A nueva_categoria \in NewCategories :
          (/\ ManageCategories(nueva_categoria, TRUE)
           /\ Strip(nueva_categoria) # <<>>
           /\ Strip(nueva_categoria) \notin supplier_frame.supplier_categories)
             => /\ \A id \in DOMAIN Proveedores :
                      Proveedores'[id].categoria = Proveedores[id].categoria
                /\ supplier_frame'.supplier_categories
                      = supplier_frame.supplier_categories \cup {Strip(nueva_categoria)}]_vars


\* ---------------------------------------------------------------- C28
\* C28: while the displayed list is at capacity at most one 500 ms admission
\* retry is pending, however many notifications were submitted meanwhile.
C28_OneRetryTimer ==
    Len(notification_widgets) >= max_notifications => poll_timers <= 1

\* A retry that fires on an empty queue
\* arms no further retry.
RetryEndsOnEmptyQueue ==
    [][notification_queue = <<>> /\ poll_timers > 0 /\ next_id' = next_id
         => poll_timers' <= poll_timers]_vars


\* ---------------------------------------------------------------- C29
\* C29: in the open notification center a double click on row r acts on
\* (marks as read, triggers the action of) exactly the notification that the
\* list shows in row r, also after submissions made while the dialog is open.
C29_RowIdentity ==
    [][\A row \in 0..MaxClickRow :
          HistoryClick(row) /\ row < Len(notification_history)
              => notification_history[row + 1].id = notif_list[row + 1]]_vars


\* ---------------------------------------------------------------- C27
\* Widgets that are clicked, closed by their button and closed by their
\* countdown, in any order.
MaxCloseSubmit == 3

NextClose ==
    \/ Submit(MaxCloseSubmit)
    \/ AnimTimer
    \/ \E w \in Range(notification_widgets) : Dismiss(w)
    \/ \E w \in Range(notification_widgets) : \E callback \in Callbacks : Click(w, callback)
    \/ \E w \in countdowns : Countdown(w)

InitClose == NInitOf({0}, {DefaultConfig}) /\ DBSeed /\ AppSeed

SpecClose == InitClose /\ [][NextClose]_vars

Closing(w) ==
    \/ Dismiss(w)
    \/ Countdown(w)
    \/ \E callback \in Callbacks : Click(w, callback)

Without(widgets, w) ==
    LET Other(x) == x # w
    IN SelectSeq(widgets, Other)

\* C27: a close of widget w, the first or a repeated one, leaves the displayed
\* list without w and otherwise as it was, and leaves the delivery queue and
\* the history unchanged; a click whose action callback raises closes too.
C27_Dismissal ==
    /\ [][\A w \in Range(shown) :
             Closing(w) =>
                /\ notification_widgets' = Without(notification_widgets, w)
                /\ Len(notification_widgets) - Len(notification_widgets')
                      = (IF w \in Range(notification_widgets) THEN 1 ELSE 0)
                /\ notification_queue' = notification_queue
                /\ notification_history' = notification_history]_vars
    /\ [][\A w \in Range(shown) :
             Click(w, "raises") => w \notin Range(notification_widgets')]_vars

\* The first widget was clicked (its callback ran) and its countdown fired
\* afterwards, while the second widget is still displayed with its countdown
\* pending and a third submission waits in the queue.
C27_Witness ==
    /\ Len(shown) = 2
    /\ message = Clicked
    /\ shown[1] \notin Range(notification_widgets)
    /\ shown[1] \notin countdowns
    /\ notification_widgets = <<shown[2]>>
    /\ shown[2] \in countdowns
    /\ notification_queue # <<>>

====
